---- MODULE Spec2Model ----
(***************************************************************************)
(* AutomationController (automation.py): the start / pause / stop          *)
(* handlers running on the control thread, interleaved with the            *)
(* _execute_auto_task worker threads that start_task spawns.               *)
(*                                                                         *)
(* One step of the model is one access of a thread to the shared fields    *)
(* (task_state, the two flags, current_step, current_task_index), or a     *)
(* run of statements that touches no field another thread writes.  Where   *)
(* consecutive statements are folded into one step, the comment of the     *)
(* action says which and why the fold loses no interleaving.               *)
(***************************************************************************)
EXTENDS Integers, Sequences, FiniteSets, TLC

\* ------------------------------------------------------------------ bounds

\* start_task calls that pass the precondition checks.
MaxStarts == 2
\* Longest pickup / place list drawn in Init.
MaxPoints == 2
\* Most segments (len(path) - 1) of a planned path.  The planner's own
\* lengths (1, 6 and 11 waypoints) belong to the planner.
MaxSegs == 2
\* Manual operations of the control thread during one run of PathSpec.
MaxManual == 1
\* Operations on the point lists during one run of PointsSpec, and calls
\* of the remove and update methods in CrudSpec.
MaxEdits == 2

\* --------------------------------------------------------- config.py enums

IDLE == "IDLE"
RUNNING == "RUNNING"
PAUSED == "PAUSED"
COMPLETED == "COMPLETED"
ERROR == "ERROR"

TaskState == {IDLE, RUNNING, PAUSED, COMPLETED, ERROR}

MOVE_TO_SAFE_HEIGHT == "MOVE_TO_SAFE_HEIGHT"
RETURN_HOME == "RETURN_HOME"
TASK_COMPLETE == "TASK_COMPLETE"

\* The step table of _execute_single_task, in its order.
stepsMutPlaceBeforePickup ==
  << "MOVE_TO_SAFE_HEIGHT", "MOVE_TO_PLACE_ABOVE", "MOVE_TO_PLACE",
     "GRIP_CLOSE", "MOVE_UP_FROM_PICKUP", "MOVE_TO_PICKUP_ABOVE",
     "MOVE_TO_PICKUP", "GRIP_OPEN", "MOVE_UP_FROM_PLACE" >>

steps ==
  << "MOVE_TO_SAFE_HEIGHT", "MOVE_TO_PICKUP_ABOVE", "MOVE_TO_PICKUP",
     "GRIP_CLOSE", "MOVE_UP_FROM_PICKUP", "MOVE_TO_PLACE_ABOVE",
     "MOVE_TO_PLACE", "GRIP_OPEN", "MOVE_UP_FROM_PLACE" >>

NumSteps == Len(steps)

\* The two entries of the table whose action is _control_gripper_auto.
IsGripStep(s) == s \in {"GRIP_CLOSE", "GRIP_OPEN"}

\* ------------------------------------------------------ config.py constants

\* The servos: 0-4 are the joints, 5 is the gripper.
Servos == 0..5
Joints == 0..4

DEFAULT_ANGLES == [j \in Servos |-> IF j = 0 THEN 190 ELSE 130]

SERVO_LIMITS ==
  [j \in Servos |->
     CASE j = 0 -> << 0, 270 >>
       [] j = 1 -> << 50, 210 >>
       [] j = 2 -> << 20, 250 >>
       [] j = 3 -> << 40, 210 >>
       [] j = 4 -> << 40, 210 >>
       [] j = 5 -> << 100, 175 >>]

GRIPPER_OPEN == 100
GRIPPER_CLOSE == 175

VARIABLES
  \* fields of AutomationController and of its communicator
  pickup_points, place_points, return_home, is_connected,
  task_state, current_task_index, current_step,
  task_stop_flag, task_pause_flag,
  \* the control thread: where it is inside a handler, and at "return" the
  \* value the handler returns as a tuple: the pair of start_task (with
  \* the check that failed for its message), the one boolean of pause_task,
  \* nothing for stop_task and elsewhere
  cpc, cret,
  \* the worker threads: position and locals of _execute_auto_task
  pc, total_tasks, task_index, step_no, num_segments, seg, success, outcome,
  \* what progress_callback is handed by the step just taken (<< >> when the
  \* step calls no _update_status), and for each worker the current_step
  \* values status_callback was handed by it, each with the
  \* current_task_index of that moment
  progress_cb, reported,
  \* bookkeeping of the run (read by no action): what failed in a worker
  \* ("send", "ik" in a step of a cycle, "home" in the return home),
  \* the handlers called while it was alive, its send_command calls with the
  \* stop flag up, the progress its last notification carried, and whether
  \* stop_task came after the last start_task, and the start_task calls that
  \* passed the checks
  failed, requests, sends_after_stop, final_cb, stopped, starts,
  \* the angle vectors: current_angles of the application (main.py) and of
  \* the AutomationController, whether the two are one list object, the
  \* servo_angles local of _execute_path (<< >> when it holds none), and
  \* bookkeeping of PathSpec: the manual operations made, current_angles of
  \* the controller at the entry of the path being executed, and the
  \* commands the path has dispatched, each with the result of its send and
  \* the angles it was built from
  app_angles, auto_angles, aliased, servo_angles,
  manual, path_start, path_sends,
  \* bookkeeping of PointsSpec: the operations on the point lists made by
  \* the control thread
  edits,
  \* one call of inverse_kinematics (kinematics.py): where it is, its
  \* argument current_angles, its loop counter and locals, and what it
  \* returns (<< >> until then, and when it raises)
  ik_pc, current_angles, ik_i, current_chain_angles, chain_angles,
  min_error, best_servo_angles, prev_servo_angles, ik_ret,
  \* bookkeeping of IKSpec: the solver passes made, the seed the last one
  \* was given, the clamped angles and the error of the last iteration, and
  \* for each error value the clamped angles of the first iteration that
  \* had it
  passes, initial_position, last_servo_angles, last_error, first_with,
  \* one motion step of the worker (_move_to_position_auto): where it is,
  \* the start and the target, their distance, the strategy the planner
  \* took ("none" until then) and the waypoint list handed to _execute_path
  pl_pc, start_pos, end_pos, dist, strategy, full_path,
  \* _execute_path on that list: the number of its segments, the index of
  \* the loop, the index of the waypoint inverse_kinematics has solved and
  \* whose command is next to be sent (-1 when there is none), the indices
  \* of the waypoints inverse_kinematics was called for, the waypoints whose
  \* command was sent with the result of the send, the index of the waypoint
  \* whose angles current_angles holds (-1 for the angles the step began
  \* with), and what the motion step returns ("none" until it does)
  path_segments, path_i, solved, ik_calls, dispatched, stored, result,
  \* one call of _get_slerp_path: where it is, its arguments p1, p2 and
  \* num_steps, and the list it returns
  sl_pc, sl_p1, sl_p2, sl_steps, sl_path,
  \* one round trip through the two angle conversions: where it is, the servo
  \* angles it begins with, their chain angles, and the servo angles got back
  cv_pc, cv_servo, cv_chain, cv_back,
  \* the last call of a remove or update method of the controller made on
  \* its own (CrudSpec): its name, its index, and the two lists before it
  last_call

shared == << task_state, current_task_index, current_step,
             task_stop_flag, task_pause_flag >>
setup == << pickup_points, place_points, return_home, is_connected >>
ctl == << cpc, cret >>
wloc == << pc, total_tasks, task_index, step_no, num_segments, seg,
           success, outcome >>
whist == << failed, sends_after_stop, final_cb >>
hist == << whist, requests, stopped, starts >>
armvars == << app_angles, auto_angles, aliased, servo_angles,
             manual, path_start, path_sends >>
\* What no step of the automation state machine (Spec) reads or writes.
ptvars == << edits, last_call >>
ikvars == << ik_pc, current_angles, ik_i, current_chain_angles, chain_angles,
            min_error, best_servo_angles, prev_servo_angles, ik_ret,
            passes, initial_position, last_servo_angles, last_error,
            first_with >>
planvars == << pl_pc, start_pos, end_pos, dist, strategy, full_path >>
exvars == << path_segments, path_i, solved, ik_calls, dispatched, stored,
            result >>
slvars == << sl_pc, sl_p1, sl_p2, sl_steps, sl_path >>
cvvars == << cv_pc, cv_servo, cv_chain, cv_back >>
mvvars == << planvars, exvars, slvars, cvvars >>
aux == << armvars, ptvars, ikvars, mvvars >>
vars == << setup, aux, shared, ctl, wloc, progress_cb, reported, hist >>

\* auto_task_thread (lines 31 and 111): the one thread slot of the
\* controller.  A thread start_task creates while the one before it is alive
\* takes its first step when that one has ended: until it takes a step it
\* has touched no field.
Workers == {1}

\* A list of k task points; the coordinates play no part in the sequencing.
PointList(k) == [i \in 1..k |-> i]

\* threading.Thread: a thread that was started and has not ended.
Alive(w) == pc[w] \notin {"none", "done"}

\* The step calls no _update_status.
Quiet == progress_cb' = << >>

\* The handler h is called: noted for every worker alive.
Note(h) ==
  requests' = [w \in Workers |->
                 IF Alive(w) THEN requests[w] \cup {h} ELSE requests[w]]

\* _update_status, lines 462-465: what progress_callback is handed.
Progress(state, index, total) ==
  << IF state \in {RUNNING, PAUSED} THEN index + 1 ELSE 0, total >>

\* start_task, lines 94-101: the three checks in their order, as the check
\* that fails ("ok" when none does).
StartCheckMutNoLengthCheck(pick, place, conn) ==
  IF Len(pick) = 0 \/ Len(place) = 0 THEN "points"
  ELSE IF ~conn THEN "port"
  ELSE "ok"

StartCheck(pick, place, conn) ==
  IF Len(pick) = 0 \/ Len(place) = 0 THEN "points"
  ELSE IF Len(pick) # Len(place) THEN "count"
  ELSE IF ~conn THEN "port"
  ELSE "ok"

\* The angle vectors after the construction of the application: its own
\* list (main.py line 163), which connect_callbacks makes the list of the
\* controller too (line 227).
ArmInit ==
  /\ app_angles = DEFAULT_ANGLES
  /\ auto_angles = DEFAULT_ANGLES
  /\ aliased = TRUE
  /\ servo_angles = << >>
  /\ manual = 0
  /\ path_start = << >>
  /\ path_sends = << >>

\* No operation on the point lists has been made.
PtInit == edits = 0 /\ last_call = << >>

\* No call of inverse_kinematics is followed.
IKIdle ==
  /\ ik_pc = "none"
  /\ current_angles = << >>
  /\ ik_i = 0
  /\ current_chain_angles = << >>
  /\ chain_angles = << >>
  /\ min_error = 0
  /\ best_servo_angles = << >>
  /\ prev_servo_angles = << >>
  /\ ik_ret = << >>
  /\ passes = 0
  /\ initial_position = << >>
  /\ last_servo_angles = << >>
  /\ last_error = 0
  /\ first_with = << >>

\* No motion step is followed.
PlanIdle ==
  /\ pl_pc = "none"
  /\ start_pos = << >>
  /\ end_pos = << >>
  /\ dist = 0
  /\ strategy = "none"
  /\ full_path = << >>

\* No call of _execute_path is followed.
ExIdle ==
  /\ path_segments = 0
  /\ path_i = 0
  /\ solved = 0 - 1
  /\ ik_calls = << >>
  /\ dispatched = << >>
  /\ stored = 0 - 1
  /\ result = "none"

SlIdle ==
  /\ sl_pc = "none"
  /\ sl_p1 = << >>
  /\ sl_p2 = << >>
  /\ sl_steps = 0
  /\ sl_path = << >>

CvIdle ==
  /\ cv_pc = "none"
  /\ cv_servo = << >>
  /\ cv_chain = << >>
  /\ cv_back = << >>

MvIdle == PlanIdle /\ ExIdle /\ SlIdle /\ CvIdle

\* __init__, lines 27-31 and 47: the controller before the first start_task,
\* with no thread, next to a control thread that is in no handler.
Quiescent ==
  /\ task_state = IDLE
  /\ current_task_index = 0
  /\ current_step = MOVE_TO_SAFE_HEIGHT
  /\ task_stop_flag = FALSE
  /\ task_pause_flag = FALSE
  /\ cpc = "idle"
  /\ cret = << >>
  /\ pc = [w \in Workers |-> "none"]
  /\ total_tasks = [w \in Workers |-> 0]
  /\ task_index = [w \in Workers |-> 0]
  /\ step_no = [w \in Workers |-> 0]
  /\ num_segments = [w \in Workers |-> 0]
  /\ seg = [w \in Workers |-> 0]
  /\ success = [w \in Workers |-> TRUE]
  /\ outcome = [w \in Workers |-> "none"]
  /\ progress_cb = << >>
  /\ reported = [w \in Workers |-> << >>]
  /\ failed = [w \in Workers |-> {}]
  /\ requests = [w \in Workers |-> {}]
  /\ sends_after_stop = [w \in Workers |-> 0]
  /\ final_cb = [w \in Workers |-> << >>]
  /\ stopped = FALSE
  /\ starts = 0

\* __init__, and the points, the return_home parameter and the connection
\* set up before the first start_task.
Init ==
  /\ ArmInit
  /\ PtInit
  /\ IKIdle
  /\ MvIdle
  /\ \E k \in 0..MaxPoints, l \in 0..MaxPoints :
       /\ pickup_points = PointList(k)
       /\ place_points = PointList(l)
  /\ return_home \in BOOLEAN
  /\ is_connected \in BOOLEAN
  /\ task_state = IDLE
  /\ current_task_index = 0
  /\ current_step = MOVE_TO_SAFE_HEIGHT
  /\ task_stop_flag = FALSE
  /\ task_pause_flag = FALSE
  /\ cpc = "idle"
  /\ cret = << >>
  /\ pc = [w \in Workers |-> "none"]
  /\ total_tasks = [w \in Workers |-> 0]
  /\ task_index = [w \in Workers |-> 0]
  /\ step_no = [w \in Workers |-> 0]
  /\ num_segments = [w \in Workers |-> 0]
  /\ seg = [w \in Workers |-> 0]
  /\ success = [w \in Workers |-> TRUE]
  /\ outcome = [w \in Workers |-> "none"]
  /\ progress_cb = << >>
  /\ reported = [w \in Workers |-> << >>]
  /\ failed = [w \in Workers |-> {}]
  /\ requests = [w \in Workers |-> {}]
  /\ sends_after_stop = [w \in Workers |-> 0]
  /\ final_cb = [w \in Workers |-> << >>]
  /\ stopped = FALSE
  /\ starts = 0

\* send_command, lines 62-72 of communication.py: fails when not connected,
\* and when the write raises.
SendResults == IF is_connected THEN {TRUE, FALSE} ELSE {FALSE}

\* --------------------------------------------------------- control thread

\* start_task, lines 94-108: the three checks and, when they pass, the five
\* resets.  The checks read fields no worker writes, so they fold into the
\* first write.
StartTask ==
  /\ cpc = "idle"
  /\ IF StartCheck(pickup_points, place_points, is_connected) = "ok"
       THEN /\ starts < MaxStarts
            /\ starts' = starts + 1
            /\ task_state' = RUNNING
            /\ current_task_index' = 0
            /\ current_step' = MOVE_TO_SAFE_HEIGHT
            /\ task_stop_flag' = FALSE
            /\ task_pause_flag' = FALSE
            /\ cpc' = "start_spawn"
            /\ stopped' = FALSE
            /\ Note("start")
            /\ sends_after_stop' = [w \in Workers |-> 0]
            /\ UNCHANGED << cret, failed, final_cb >>
       ELSE /\ cret' = << FALSE, StartCheck(pickup_points, place_points,
                                             is_connected) >>
            /\ cpc' = "return"
            /\ UNCHANGED << shared, hist >>
  /\ Quiet
  /\ UNCHANGED << setup, aux, wloc, reported >>

\* start_task, lines 111-112: a new thread in _execute_auto_task, which
\* takes total_tasks = len(pickup_points) on entry (line 142).  It gets the
\* first slot no living thread holds, and "overlap" is noted for it when its
\* start_task was called with the slot's last thread alive.
StartSpawn ==
  /\ cpc = "start_spawn"
  /\ \E v \in Workers : ~Alive(v)
  /\ LET w == CHOOSE v \in Workers :
                /\ ~Alive(v)
                /\ \A u \in Workers : ~Alive(u) => v <= u
     IN
       /\ pc' = [pc EXCEPT ![w] = "for"]
       /\ total_tasks' = [total_tasks EXCEPT ![w] = Len(pickup_points)]
       /\ task_index' = [task_index EXCEPT ![w] = 0]
       /\ step_no' = [step_no EXCEPT ![w] = 0]
       /\ success' = [success EXCEPT ![w] = TRUE]
       /\ outcome' = [outcome EXCEPT ![w] = "none"]
       /\ reported' = [reported EXCEPT ![w] = << >>]
       /\ failed' = [failed EXCEPT ![w] = {}]
       /\ requests' = [requests EXCEPT ![w] =
                          IF "start" \in @ THEN {"overlap"} ELSE {}]
       /\ sends_after_stop' = [sends_after_stop EXCEPT ![w] = 0]
       /\ final_cb' = [final_cb EXCEPT ![w] = << >>]
  /\ cpc' = "start_notify"
  /\ Quiet
  /\ UNCHANGED << setup, aux, shared, cret, num_segments, seg, stopped, starts >>

\* start_task, lines 114-115.
StartNotify ==
  /\ cpc = "start_notify"
  /\ progress_cb' = Progress(task_state, current_task_index, Len(pickup_points))
  /\ cret' = << TRUE, "ok" >>
  /\ cpc' = "return"
  /\ UNCHANGED << setup, aux, shared, wloc, reported, hist >>

\* pause_task, lines 119-120 and 122-123: the test of task_state and the
\* write of the flag.  A worker never writes RUNNING or PAUSED, so the two
\* tests of the if / elif see what one test sees; the steps a worker takes
\* between the test and the flag write read the flag as it was at the test.
PauseTask ==
  /\ cpc = "idle"
  /\ IF task_state = RUNNING
       THEN task_pause_flag' = TRUE /\ cpc' = "pause_state"
       ELSE IF task_state = PAUSED
              THEN task_pause_flag' = FALSE /\ cpc' = "resume_state"
              ELSE UNCHANGED task_pause_flag /\ cpc' = "pause_notify"
  /\ Note("pause")
  /\ Quiet
  /\ UNCHANGED << setup, aux, task_state, current_task_index, current_step,
                  task_stop_flag, cret, wloc, reported, whist, stopped, starts >>

\* pause_task, line 121.
PauseSetState ==
  /\ cpc = "pause_state"
  /\ task_state' = PAUSED
  /\ cpc' = "pause_notify"
  /\ Quiet
  /\ UNCHANGED << setup, aux, current_task_index, current_step, task_stop_flag,
                  task_pause_flag, cret, wloc, reported, hist >>

\* pause_task, line 124.
ResumeSetState ==
  /\ cpc = "resume_state"
  /\ task_state' = RUNNING
  /\ cpc' = "pause_notify"
  /\ Quiet
  /\ UNCHANGED << setup, aux, current_task_index, current_step, task_stop_flag,
                  task_pause_flag, cret, wloc, reported, hist >>

\* pause_task, line 127: the value returned.
PauseReturnsMutWhileActive(state) == state \in {RUNNING, PAUSED}

PauseReturns(state) == state = PAUSED

\* pause_task, lines 126-127.
PauseNotify ==
  /\ cpc = "pause_notify"
  /\ progress_cb' = Progress(task_state, current_task_index, Len(pickup_points))
  /\ cret' = << PauseReturns(task_state) >>
  /\ cpc' = "return"
  /\ UNCHANGED << setup, aux, shared, wloc, reported, hist >>

\* stop_task, line 131.
StopTask ==
  /\ cpc = "idle"
  /\ task_stop_flag' = TRUE
  /\ cpc' = "stop_state"
  /\ Note("stop")
  /\ Quiet
  /\ UNCHANGED << setup, aux, task_state, current_task_index, current_step,
                  task_pause_flag, cret, wloc, reported, whist, stopped, starts >>

\* stop_task, lines 132-133.
StopSetState ==
  /\ cpc = "stop_state"
  /\ task_state' = IDLE
  /\ progress_cb' = Progress(task_state', current_task_index, Len(pickup_points))
  /\ cpc' = "return"
  /\ stopped' = TRUE
  /\ UNCHANGED << setup, aux, current_task_index, current_step, task_stop_flag,
                  task_pause_flag, cret, wloc, reported, whist, requests, starts >>

\* The handler has returned: the control thread is back in its event loop.
Return ==
  /\ cpc = "return"
  /\ cpc' = "idle"
  /\ cret' = << >>
  /\ Quiet
  /\ UNCHANGED << setup, aux, shared, wloc, reported, hist >>

\* ---------------------------------------------------------- worker thread

\* One more send_command call by w, counted when the stop flag is up (a
\* start_task takes the flag down and the count back to 0).
CountSend(w) ==
  sends_after_stop' =
    IF task_stop_flag /\ sends_after_stop[w] < 2
      THEN [sends_after_stop EXCEPT ![w] = @ + 1]
      ELSE sends_after_stop

\* _execute_auto_task, lines 144-150: the head of the for loop, the stop
\* test and the write of current_task_index.
W_For(w) ==
  /\ pc[w] = "for"
  /\ IF task_index[w] >= total_tasks[w] \/ task_stop_flag
       THEN /\ pc' = [pc EXCEPT ![w] = "end_check"]
            /\ UNCHANGED << current_task_index, step_no >>
       ELSE /\ current_task_index' = task_index[w]
            /\ step_no' = [step_no EXCEPT ![w] = 1]
            /\ pc' = [pc EXCEPT ![w] = "step_check"]
  /\ Quiet
  /\ UNCHANGED << setup, aux, task_state, current_step, task_stop_flag,
                  task_pause_flag, ctl, total_tasks, task_index,
                  num_segments, seg, success, outcome, reported, hist >>

\* Lines 204 and 296: whether the pause wait goes on.
WaitsMutIgnoresStop(pause, stop) == pause

Waits(pause, stop) == pause /\ ~stop

\* _execute_single_task, lines 201-210 (and 225 when the table is through):
\* stop test, pause wait, stop test.  The wait leaves when the pause flag is
\* down or the stop flag is up, and the test after it decides on the stop
\* flag alone, so the three lines are one poll of the two flags.
W_StepCheck(w) ==
  /\ pc[w] = "step_check"
  /\ IF step_no[w] > NumSteps
       THEN /\ success' = [success EXCEPT ![w] = TRUE]
            /\ pc' = [pc EXCEPT ![w] = "task_ret"]
       ELSE IF Waits(task_pause_flag, task_stop_flag)
              THEN UNCHANGED << success, pc >>
              ELSE IF task_stop_flag
                     THEN /\ success' = [success EXCEPT ![w] = FALSE]
                          /\ pc' = [pc EXCEPT ![w] = "task_ret"]
                     ELSE /\ pc' = [pc EXCEPT ![w] = "step_report"]
                          /\ UNCHANGED success
  /\ Quiet
  /\ UNCHANGED << setup, aux, shared, ctl, total_tasks, task_index, step_no,
                  num_segments, seg, outcome, reported, hist >>

\* _execute_single_task, lines 212-213: current_step and its notification.
\* Only a start_task writes current_step besides the worker.
W_StepReport(w) ==
  /\ pc[w] = "step_report"
  /\ current_step' = steps[step_no[w]]
  /\ progress_cb' = Progress(task_state, current_task_index, Len(pickup_points))
  /\ reported' = [reported EXCEPT ![w] = Append(@, << current_step', current_task_index >>)]
  /\ pc' = [pc EXCEPT ![w] =
              IF IsGripStep(steps[step_no[w]]) THEN "grip" ELSE "plan"]
  /\ UNCHANGED << setup, aux, task_state, current_task_index, task_stop_flag,
                  task_pause_flag, ctl, total_tasks, task_index, step_no,
                  num_segments, seg, success, outcome, hist >>

\* _move_to_safe_height / _move_to_point_above / _move_to_point down to the
\* entry of _execute_path (lines 227-291): a path is planned, of n segments.
\* With no segment _execute_path returns True at line 289.
W_Plan(w) ==
  /\ pc[w] = "plan"
  /\ \E n \in 0..MaxSegs :
       IF n = 0
         THEN /\ step_no' = [step_no EXCEPT ![w] = @ + 1]
              /\ pc' = [pc EXCEPT ![w] = "step_check"]
              /\ UNCHANGED << num_segments, seg >>
         ELSE /\ num_segments' = [num_segments EXCEPT ![w] = n]
              /\ seg' = [seg EXCEPT ![w] = 0]
              /\ pc' = [pc EXCEPT ![w] = "path_check"]
              /\ UNCHANGED step_no
  /\ Quiet
  /\ UNCHANGED << setup, aux, shared, ctl, total_tasks, task_index, success,
                  outcome, reported, hist >>

\* The step of w returns False (lines 219-223): the cycle is over.
StepFailsMutSkipsWaypoint(w) ==
  /\ seg' = [seg EXCEPT ![w] = @ + 1]
  /\ pc' = [pc EXCEPT ![w] = "path_check"]
  /\ UNCHANGED << success, num_segments >>

StepFails(w) ==
  /\ success' = [success EXCEPT ![w] = FALSE]
  /\ num_segments' = [num_segments EXCEPT ![w] = 0]
  /\ seg' = [seg EXCEPT ![w] = 0]
  /\ pc' = [pc EXCEPT ![w] = "task_ret"]

\* _execute_path, lines 293-297 (and 317 when the loop is through): the same
\* poll of the two flags as in _execute_single_task.  A False returned here
\* returns False from the step (lines 219-220).
W_PathCheck(w) ==
  /\ pc[w] = "path_check"
  /\ IF seg[w] >= num_segments[w]
       THEN /\ step_no' = [step_no EXCEPT ![w] = @ + 1]
            /\ num_segments' = [num_segments EXCEPT ![w] = 0]
            /\ seg' = [seg EXCEPT ![w] = 0]
            /\ pc' = [pc EXCEPT ![w] = "step_check"]
            /\ UNCHANGED success
       ELSE IF Waits(task_pause_flag, task_stop_flag)
              THEN UNCHANGED << success, num_segments, seg, pc, step_no >>
              ELSE IF task_stop_flag
                     THEN StepFails(w) /\ UNCHANGED step_no
                     ELSE /\ pc' = [pc EXCEPT ![w] = "path_exec"]
                          /\ UNCHANGED << success, num_segments, seg, step_no >>
  /\ Quiet
  /\ UNCHANGED << setup, aux, shared, ctl, total_tasks, task_index, outcome,
                  reported, hist >>

\* What W_PathSkip, W_PathRaise and W_PathSend leave alone.
PathExecFrame ==
  /\ Quiet
  /\ UNCHANGED << setup, aux, shared, ctl, total_tasks, task_index, step_no,
                  outcome, reported, final_cb, requests, stopped, starts >>

\* _execute_path, lines 299-305: inverse_kinematics returns no angles and
\* the waypoint is skipped.
W_PathSkip(w) ==
  /\ pc[w] = "path_exec"
  /\ seg' = [seg EXCEPT ![w] = @ + 1]
  /\ pc' = [pc EXCEPT ![w] = "path_check"]
  /\ UNCHANGED << success, num_segments, failed, sends_after_stop >>
  /\ PathExecFrame

\* _execute_path, line 302: inverse_kinematics raises, and
\* _move_to_position_auto returns False (lines 277-279).
W_PathRaise(w) ==
  /\ pc[w] = "path_exec"
  /\ StepFails(w)
  /\ failed' = [failed EXCEPT ![w] = @ \cup {"ik"}]
  /\ UNCHANGED sends_after_stop
  /\ PathExecFrame

\* _execute_path, lines 299-316: inverse_kinematics returns angles and the
\* command is dispatched.
W_PathSend(w) ==
  /\ pc[w] = "path_exec"
  /\ CountSend(w)
  /\ \E ok \in SendResults :
       IF ok
         THEN /\ seg' = [seg EXCEPT ![w] = @ + 1]
              /\ pc' = [pc EXCEPT ![w] = "path_check"]
              /\ UNCHANGED << success, num_segments, failed >>
         ELSE /\ StepFails(w)
              /\ failed' = [failed EXCEPT ![w] = @ \cup {"send"}]
  /\ PathExecFrame

\* _control_gripper_auto, lines 421-437.
W_Grip(w) ==
  /\ pc[w] = "grip"
  /\ CountSend(w)
  /\ \E ok \in SendResults :
       IF ok
         THEN /\ step_no' = [step_no EXCEPT ![w] = @ + 1]
              /\ pc' = [pc EXCEPT ![w] = "step_check"]
              /\ UNCHANGED << success, num_segments, seg, failed >>
         ELSE /\ StepFails(w)
              /\ failed' = [failed EXCEPT ![w] = @ \cup {"send"}]
              /\ UNCHANGED step_no
  /\ Quiet
  /\ UNCHANGED << setup, aux, shared, ctl, total_tasks, task_index, outcome,
                  reported, final_cb, requests, stopped, starts >>

\* _execute_auto_task, line 158: whether the for loop is left after a cycle.
BreaksLoopMutIgnoresSuccess(ok, stop) == stop

BreaksLoop(ok, stop) == ~ok \/ stop

\* _execute_auto_task, lines 156-159.
W_TaskRet(w) ==
  /\ pc[w] = "task_ret"
  /\ IF BreaksLoop(success[w], task_stop_flag)
       THEN /\ pc' = [pc EXCEPT ![w] = "end_check"]
            /\ UNCHANGED task_index
       ELSE /\ task_index' = [task_index EXCEPT ![w] = @ + 1]
            /\ pc' = [pc EXCEPT ![w] = "for"]
  /\ Quiet
  /\ UNCHANGED << setup, aux, shared, ctl, total_tasks, step_no, num_segments,
                  seg, success, outcome, reported, hist >>

\* _execute_auto_task, line 162: whether the return home is made.
GoesHomeMutIgnoresStop(stop, home) == home

GoesHome(stop, home) == ~stop /\ home

\* _execute_auto_task, line 162.
W_EndCheck(w) ==
  /\ pc[w] = "end_check"
  /\ pc' = [pc EXCEPT ![w] =
              IF GoesHome(task_stop_flag, return_home) THEN "home_report"
                                                       ELSE "end_check2"]
  /\ Quiet
  /\ UNCHANGED << setup, aux, shared, ctl, total_tasks, task_index, step_no,
                  num_segments, seg, success, outcome, reported, hist >>

\* _execute_auto_task, lines 164-165.
W_HomeReport(w) ==
  /\ pc[w] = "home_report"
  /\ current_step' = RETURN_HOME
  /\ progress_cb' = Progress(task_state, current_task_index, Len(pickup_points))
  /\ reported' = [reported EXCEPT ![w] = Append(@, << current_step', current_task_index >>)]
  /\ pc' = [pc EXCEPT ![w] = "home_send"]
  /\ UNCHANGED << setup, aux, task_state, current_task_index, task_stop_flag,
                  task_pause_flag, ctl, total_tasks, task_index, step_no,
                  num_segments, seg, success, outcome, hist >>

\* _execute_auto_task, lines 169-173: the state it settles in after
\* _return_to_home_position.
HomeOutcome(ok) == IF ok THEN COMPLETED ELSE ERROR

\* _return_to_home_position, lines 439-455, and the branch on its result.
W_HomeSend(w) ==
  /\ pc[w] = "home_send"
  /\ CountSend(w)
  /\ \E ok \in SendResults :
       /\ outcome' = [outcome EXCEPT ![w] = HomeOutcome(ok)]
       /\ failed' = [failed EXCEPT ![w] = IF ok THEN @ ELSE @ \cup {"home"}]
  /\ pc' = [pc EXCEPT ![w] = "write_final"]
  /\ Quiet
  /\ UNCHANGED << setup, aux, shared, ctl, total_tasks, task_index, step_no,
                  num_segments, seg, success, reported, final_cb, requests,
                  stopped, starts >>

\* _execute_auto_task, lines 174-178: the state it settles in without a
\* return home.
EndOutcome(stop) == IF ~stop THEN COMPLETED ELSE IDLE

\* _execute_auto_task, line 174: the second read of the stop flag.
W_EndCheck2(w) ==
  /\ pc[w] = "end_check2"
  /\ outcome' = [outcome EXCEPT ![w] = EndOutcome(task_stop_flag)]
  /\ pc' = [pc EXCEPT ![w] = "write_final"]
  /\ Quiet
  /\ UNCHANGED << setup, aux, shared, ctl, total_tasks, task_index, step_no,
                  num_segments, seg, success, reported, hist >>

\* _execute_auto_task, lines 170-171, 173, 175-176, 178: the writes of the
\* branch taken.
W_WriteFinal(w) ==
  /\ pc[w] = "write_final"
  /\ task_state' = outcome[w]
  /\ current_step' = IF outcome[w] = COMPLETED THEN TASK_COMPLETE
                                               ELSE current_step
  /\ pc' = [pc EXCEPT ![w] = "final"]
  /\ Quiet
  /\ UNCHANGED << setup, aux, current_task_index, task_stop_flag, task_pause_flag,
                  ctl, total_tasks, task_index, step_no, num_segments, seg,
                  success, outcome, reported, hist >>

\* _execute_auto_task, line 185: the notification of the finally clause,
\* after which the thread ends.
W_Final(w) ==
  /\ pc[w] = "final"
  /\ progress_cb' = Progress(task_state, current_task_index, Len(pickup_points))
  /\ final_cb' = [final_cb EXCEPT ![w] = progress_cb']
  /\ reported' = [reported EXCEPT ![w] = Append(@, << current_step, current_task_index >>)]
  /\ pc' = [pc EXCEPT ![w] = "done"]
  /\ UNCHANGED << setup, aux, shared, ctl, total_tasks, task_index, step_no,
                  num_segments, seg, success, outcome, failed,
                  sends_after_stop, requests, stopped, starts >>

Next ==
  \/ StartTask
  \/ StartSpawn
  \/ StartNotify
  \/ PauseTask
  \/ PauseSetState
  \/ ResumeSetState
  \/ PauseNotify
  \/ StopTask
  \/ StopSetState
  \/ Return
  \/ \E w \in Workers : W_For(w)
  \/ \E w \in Workers : W_StepCheck(w)
  \/ \E w \in Workers : W_StepReport(w)
  \/ \E w \in Workers : W_Plan(w)
  \/ \E w \in Workers : W_PathCheck(w)
  \/ \E w \in Workers : W_PathSkip(w)
  \/ \E w \in Workers : W_PathRaise(w)
  \/ \E w \in Workers : W_PathSend(w)
  \/ \E w \in Workers : W_Grip(w)
  \/ \E w \in Workers : W_TaskRet(w)
  \/ \E w \in Workers : W_EndCheck(w)
  \/ \E w \in Workers : W_HomeReport(w)
  \/ \E w \in Workers : W_HomeSend(w)
  \/ \E w \in Workers : W_EndCheck2(w)
  \/ \E w \in Workers : W_WriteFinal(w)
  \/ \E w \in Workers : W_Final(w)

Spec == Init /\ [][Next]_vars


\* ================================================================= StopSpec
\* The worker of one start_task next to the pause_task and stop_task calls
\* of the control thread; start_task is not called again.  The worker is a
\* thread that runs: when it can take a step it takes one in the end.

\* The steps of the worker w.
WorkerNext(w) ==
  \/ W_For(w)
  \/ W_StepCheck(w)
  \/ W_StepReport(w)
  \/ W_Plan(w)
  \/ W_PathCheck(w)
  \/ W_PathSkip(w)
  \/ W_PathRaise(w)
  \/ W_PathSend(w)
  \/ W_Grip(w)
  \/ W_TaskRet(w)
  \/ W_EndCheck(w)
  \/ W_HomeReport(w)
  \/ W_HomeSend(w)
  \/ W_EndCheck2(w)
  \/ W_WriteFinal(w)
  \/ W_Final(w)

\* start_task has returned (lines 94-115) for one pickup and one place
\* point: the worker is at the head of its loop.
StopInit ==
  /\ ArmInit
  /\ PtInit
  /\ IKIdle
  /\ MvIdle
  /\ pickup_points = PointList(1)
  /\ place_points = PointList(1)
  /\ return_home \in BOOLEAN
  /\ is_connected = TRUE
  /\ task_state = RUNNING
  /\ current_task_index = 0
  /\ current_step = MOVE_TO_SAFE_HEIGHT
  /\ task_stop_flag = FALSE
  /\ task_pause_flag = FALSE
  /\ cpc = "idle"
  /\ cret = << >>
  /\ pc = [w \in Workers |-> "for"]
  /\ total_tasks = [w \in Workers |-> 1]
  /\ task_index = [w \in Workers |-> 0]
  /\ step_no = [w \in Workers |-> 0]
  /\ num_segments = [w \in Workers |-> 0]
  /\ seg = [w \in Workers |-> 0]
  /\ success = [w \in Workers |-> TRUE]
  /\ outcome = [w \in Workers |-> "none"]
  /\ progress_cb = << >>
  /\ reported = [w \in Workers |-> << >>]
  /\ failed = [w \in Workers |-> {}]
  /\ requests = [w \in Workers |-> {}]
  /\ sends_after_stop = [w \in Workers |-> 0]
  /\ final_cb = [w \in Workers |-> << >>]
  /\ stopped = FALSE
  /\ starts = 1

StopNext ==
  \/ PauseTask
  \/ PauseSetState
  \/ ResumeSetState
  \/ PauseNotify
  \/ StopTask
  \/ StopSetState
  \/ Return
  \/ \E w \in Workers : WorkerNext(w)

StopSpec ==
  /\ StopInit
  /\ [][StopNext]_vars
  /\ WF_vars(\E w \in Workers : WorkerNext(w))

\* ================================================================ PathSpec
\* One run of a single pick-and-place task, followed through the writes of
\* current_angles, next to the manual operations of the application on the
\* control thread.  No pause_task or stop_task is called in it.

\* The joint angles a solve comes back with (all five joints alike), and the
\* value a manual operation is given (valid for servos 0, 2, 3 and 4).
SolvedAngles == {60, 120}
ManualAngles == {45}

\* The fields of the automation state machine that PathSpec leaves alone.
autoRest == << pickup_points, place_points, return_home, current_task_index,
               current_step, task_stop_flag, task_pause_flag, ctl,
               total_tasks, task_index, outcome, progress_cb, reported, hist >>

\* What PathSpec neither reads nor writes.
armRest == << autoRest, ptvars, ikvars, mvvars >>

\* inverse_kinematics as _execute_path sees it (kinematics.py line 166): the
\* joints from the solve, the gripper entry from the seed.
IKResult(a, seed) == [j \in Servos |-> IF j \in Joints THEN a ELSE seed[j]]

\* validate_servo_angle, utils.py lines 280-287.
ValidServoAngle(servo_id, angle) ==
  /\ servo_id \in Servos
  /\ SERVO_LIMITS[servo_id][1] <= angle
  /\ angle <= SERVO_LIMITS[servo_id][2]

\* create_position_command, communication.py lines 100-101: the servos a
\* command is built for.
EndIndexMutWithGripper(exclude_gripper) == 6

EndIndex(exclude_gripper) == IF exclude_gripper THEN 5 ELSE 6

\* create_position_command, communication.py lines 97-106: one part
\* << servo, angle >> for each servo below end_index.
CreatePositionCommand(angles, exclude_gripper) ==
  [k \in 1..EndIndex(exclude_gripper) |-> << k - 1, angles[k - 1] >>]

\* _execute_path, lines 310-316: current_angles after the send of a
\* waypoint.
AnglesAfterSendMutStoresFailed(ok, current, servo) ==
  [j \in Servos |-> IF j \in Joints THEN servo[j] ELSE current[j]]

AnglesAfterSend(ok, current, servo) ==
  IF ok THEN [j \in Servos |-> IF j \in Joints THEN servo[j] ELSE current[j]]
        ELSE current

\* A write into the list of the application: it is the list of the
\* controller too while the two are one object.
AppWrites(new) ==
  /\ app_angles' = new
  /\ auto_angles' = IF aliased THEN new ELSE auto_angles
  /\ UNCHANGED aliased

\* A write into the list of the controller.
AutoWrites(new) ==
  /\ auto_angles' = new
  /\ app_angles' = IF aliased THEN new ELSE app_angles
  /\ UNCHANGED aliased

\* The application is constructed (main.py lines 163, 227) and
\* load_application_settings has run (lines 232-244): when the settings were
\* loaded the application holds a new list, when load_settings failed it
\* still shares its list with the controller.  One task point pair is set and
\* the port is connected.
PathInit ==
  /\ \E loaded \in BOOLEAN : aliased = ~loaded
  /\ app_angles = DEFAULT_ANGLES
  /\ auto_angles = DEFAULT_ANGLES
  /\ servo_angles = << >>
  /\ manual = 0
  /\ path_start = << >>
  /\ path_sends = << >>
  /\ PtInit
  /\ IKIdle
  /\ MvIdle
  /\ pickup_points = PointList(1)
  /\ place_points = PointList(1)
  /\ return_home \in BOOLEAN
  /\ is_connected = TRUE
  /\ task_state = IDLE
  /\ current_task_index = 0
  /\ current_step = MOVE_TO_SAFE_HEIGHT
  /\ task_stop_flag = FALSE
  /\ task_pause_flag = FALSE
  /\ cpc = "idle"
  /\ cret = << >>
  /\ pc = [w \in Workers |-> "none"]
  /\ total_tasks = [w \in Workers |-> 0]
  /\ task_index = [w \in Workers |-> 0]
  /\ step_no = [w \in Workers |-> 0]
  /\ num_segments = [w \in Workers |-> 0]
  /\ seg = [w \in Workers |-> 0]
  /\ success = [w \in Workers |-> TRUE]
  /\ outcome = [w \in Workers |-> "none"]
  /\ progress_cb = << >>
  /\ reported = [w \in Workers |-> << >>]
  /\ failed = [w \in Workers |-> {}]
  /\ requests = [w \in Workers |-> {}]
  /\ sends_after_stop = [w \in Workers |-> 0]
  /\ final_cb = [w \in Workers |-> << >>]
  /\ stopped = FALSE
  /\ starts = 0

\* What a step of the worker in PathSpec leaves alone besides its own
\* position and the angle vectors.
ArmWorkerFrame ==
  UNCHANGED << armRest, is_connected, manual >>

\* start_task, lines 104-112, in one step: RUNNING, and the worker at the
\* first entry of the step table.
RunStart(w) ==
  /\ task_state = IDLE
  /\ pc[w] = "none"
  /\ task_state' = RUNNING
  /\ pc' = [pc EXCEPT ![w] = "step_check"]
  /\ step_no' = [step_no EXCEPT ![w] = 1]
  /\ success' = [success EXCEPT ![w] = TRUE]
  /\ UNCHANGED << num_segments, seg, app_angles, auto_angles, aliased,
                  servo_angles, path_start, path_sends >>
  /\ ArmWorkerFrame

\* _execute_single_task, lines 200-217: the next entry of the step table is
\* a gripper step or a motion step; line 225 when the table is through.
ArmStep(w) ==
  /\ pc[w] = "step_check"
  /\ pc' = [pc EXCEPT ![w] =
              IF step_no[w] > NumSteps THEN "end_check"
              ELSE IF IsGripStep(steps[step_no[w]]) THEN "grip" ELSE "plan"]
  /\ UNCHANGED << task_state, step_no, num_segments, seg, success,
                  app_angles, auto_angles, aliased, servo_angles,
                  path_start, path_sends >>
  /\ ArmWorkerFrame

\* _move_to_position_auto down to the entry of _execute_path (lines
\* 243-291): a path of n segments; none is a step that succeeds at once.
ArmPlan(w) ==
  /\ pc[w] = "plan"
  /\ path_start' = auto_angles
  /\ path_sends' = << >>
  /\ \E n \in 0..MaxSegs :
       IF n = 0
         THEN /\ step_no' = [step_no EXCEPT ![w] = @ + 1]
              /\ pc' = [pc EXCEPT ![w] = "step_check"]
              /\ UNCHANGED << num_segments, seg >>
         ELSE /\ num_segments' = [num_segments EXCEPT ![w] = n]
              /\ seg' = [seg EXCEPT ![w] = 0]
              /\ pc' = [pc EXCEPT ![w] = "path_check"]
              /\ UNCHANGED step_no
  /\ UNCHANGED << task_state, success, app_angles, auto_angles, aliased,
                  servo_angles >>
  /\ ArmWorkerFrame

\* _execute_path, line 293 (317 when the loop is through): the head of the
\* loop over the segments.
ArmPathNext(w) ==
  /\ pc[w] = "path_check"
  /\ IF seg[w] >= num_segments[w]
       THEN /\ step_no' = [step_no EXCEPT ![w] = @ + 1]
            /\ pc' = [pc EXCEPT ![w] = "step_check"]
       ELSE /\ pc' = [pc EXCEPT ![w] = "path_exec"]
            /\ UNCHANGED step_no
  /\ UNCHANGED << task_state, num_segments, seg, success, app_angles,
                  auto_angles, aliased, servo_angles, path_start, path_sends >>
  /\ ArmWorkerFrame

\* _execute_path, lines 299-305: inverse_kinematics is called with
\* current_angles as the seed.  It returns angles, or none (the waypoint is
\* skipped), or it raises (the step fails, lines 277-279).
ArmPathSolve(w) ==
  /\ pc[w] = "path_exec"
  /\ \/ \E a \in SolvedAngles :
          /\ servo_angles' = IKResult(a, auto_angles)
          /\ pc' = [pc EXCEPT ![w] = "path_send"]
          /\ UNCHANGED << seg, success >>
     \/ /\ seg' = [seg EXCEPT ![w] = @ + 1]
        /\ pc' = [pc EXCEPT ![w] = "path_check"]
        /\ UNCHANGED << servo_angles, success >>
     \/ /\ success' = [success EXCEPT ![w] = FALSE]
        /\ pc' = [pc EXCEPT ![w] = "end_check"]
        /\ UNCHANGED << servo_angles, seg >>
  /\ UNCHANGED << task_state, step_no, num_segments, app_angles, auto_angles,
                  aliased, path_start, path_sends >>
  /\ ArmWorkerFrame

\* _execute_path, lines 307-316: the command of the waypoint is built and
\* sent; current_angles takes the angles when the send succeeded, and the
\* path is given up when it failed.
ArmPathSend(w) ==
  /\ pc[w] = "path_send"
  /\ \E ok \in SendResults :
       /\ path_sends' =
            Append(path_sends,
                   << CreatePositionCommand(servo_angles, TRUE), ok,
                      servo_angles >>)
       /\ AutoWrites(AnglesAfterSend(ok, auto_angles, servo_angles))
       /\ IF ok
            THEN /\ seg' = [seg EXCEPT ![w] = @ + 1]
                 /\ pc' = [pc EXCEPT ![w] = "path_check"]
                 /\ UNCHANGED success
            ELSE /\ success' = [success EXCEPT ![w] = FALSE]
                 /\ pc' = [pc EXCEPT ![w] = "end_check"]
                 /\ UNCHANGED seg
  /\ servo_angles' = << >>
  /\ UNCHANGED << task_state, step_no, num_segments, path_start >>
  /\ ArmWorkerFrame

\* _execute_single_task, lines 192 and 196: the angle of a gripper step.
GripAngle(s) == IF s = "GRIP_CLOSE" THEN GRIPPER_CLOSE ELSE GRIPPER_OPEN

\* _control_gripper_auto, lines 421-437.
ArmGrip(w) ==
  /\ pc[w] = "grip"
  /\ \E ok \in SendResults :
       IF ok
         THEN /\ AutoWrites([auto_angles EXCEPT
                               ![5] = GripAngle(steps[step_no[w]])])
              /\ step_no' = [step_no EXCEPT ![w] = @ + 1]
              /\ pc' = [pc EXCEPT ![w] = "step_check"]
              /\ UNCHANGED success
         ELSE /\ success' = [success EXCEPT ![w] = FALSE]
              /\ pc' = [pc EXCEPT ![w] = "end_check"]
              /\ UNCHANGED << step_no, app_angles, auto_angles, aliased >>
  /\ UNCHANGED << task_state, num_segments, seg, servo_angles, path_start,
                  path_sends >>
  /\ ArmWorkerFrame

\* _execute_auto_task, lines 162 and 174-176, with the stop flag down.
ArmEnd(w) ==
  /\ pc[w] = "end_check"
  /\ IF GoesHome(task_stop_flag, return_home)
       THEN /\ pc' = [pc EXCEPT ![w] = "home_send"]
            /\ UNCHANGED task_state
       ELSE /\ pc' = [pc EXCEPT ![w] = "done"]
            /\ task_state' = EndOutcome(task_stop_flag)
  /\ UNCHANGED << step_no, num_segments, seg, success, app_angles,
                  auto_angles, aliased, servo_angles, path_start, path_sends >>
  /\ ArmWorkerFrame

\* _return_to_home_position, lines 439-455, and lines 169-173: a send that
\* succeeds gives the controller a new list, a copy of DEFAULT_ANGLES.
ArmHome(w) ==
  /\ pc[w] = "home_send"
  /\ \E ok \in SendResults :
       /\ task_state' = HomeOutcome(ok)
       /\ IF ok
            THEN /\ auto_angles' = DEFAULT_ANGLES
                 /\ aliased' = FALSE
                 /\ UNCHANGED app_angles
            ELSE UNCHANGED << app_angles, auto_angles, aliased >>
  /\ pc' = [pc EXCEPT ![w] = "done"]
  /\ UNCHANGED << step_no, num_segments, seg, success, servo_angles,
                  path_start, path_sends >>
  /\ ArmWorkerFrame

\* What a manual operation leaves alone besides the angle vectors.
ManualFrame ==
  /\ manual < MaxManual
  /\ manual' = manual + 1
  /\ UNCHANGED << armRest, is_connected, task_state, pc, step_no,
                  num_segments, seg, success, servo_angles, path_start,
                  path_sends >>

\* on_servo_angle_change, main.py lines 452-471: a valid value is written
\* into the list of the application, whatever task_state is.
OnServoAngleChange ==
  /\ \E servo_id \in Servos, value \in ManualAngles :
       IF ValidServoAngle(servo_id, value)
         THEN AppWrites([app_angles EXCEPT ![servo_id] = value])
         ELSE UNCHANGED << app_angles, auto_angles, aliased >>
  /\ ManualFrame

\* calculate_inverse_kinematics, main.py lines 378-400: the joints of the
\* result are written into the list of the application.
CalculateInverseKinematics ==
  /\ \E a \in SolvedAngles :
       AppWrites([j \in Servos |->
                    IF j \in Joints THEN IKResult(a, DEFAULT_ANGLES)[j]
                                    ELSE app_angles[j]])
  /\ ManualFrame

\* reset_robot_position, main.py lines 474-481: the application takes a new
\* list, a copy of DEFAULT_ANGLES.
ResetRobotPosition ==
  /\ app_angles' = DEFAULT_ANGLES
  /\ aliased' = FALSE
  /\ UNCHANGED auto_angles
  /\ ManualFrame

\* send_manual_command, main.py lines 503-524: the application takes a new
\* list, the angles of the entry fields, when they are all valid.
SendManualCommand ==
  /\ is_connected
  /\ \E value \in ManualAngles :
       IF \A j \in Servos : ValidServoAngle(j, value)
         THEN /\ app_angles' = [j \in Servos |-> value]
              /\ aliased' = FALSE
              /\ UNCHANGED auto_angles
         ELSE UNCHANGED << app_angles, auto_angles, aliased >>
  /\ ManualFrame

\* control_gripper, main.py lines 541-557: the gripper entry of the list of
\* the application is written when the send succeeded.
ControlGripper ==
  /\ is_connected
  /\ \E angle \in {GRIPPER_OPEN, GRIPPER_CLOSE}, ok \in SendResults :
       IF ok THEN AppWrites([app_angles EXCEPT ![5] = angle])
             ELSE UNCHANGED << app_angles, auto_angles, aliased >>
  /\ ManualFrame

PathNext ==
  \/ \E w \in Workers : RunStart(w)
  \/ \E w \in Workers : ArmStep(w)
  \/ \E w \in Workers : ArmPlan(w)
  \/ \E w \in Workers : ArmPathNext(w)
  \/ \E w \in Workers : ArmPathSolve(w)
  \/ \E w \in Workers : ArmPathSend(w)
  \/ \E w \in Workers : ArmGrip(w)
  \/ \E w \in Workers : ArmEnd(w)
  \/ \E w \in Workers : ArmHome(w)
  \/ OnServoAngleChange
  \/ CalculateInverseKinematics
  \/ ResetRobotPosition
  \/ SendManualCommand
  \/ ControlGripper

PathSpec == PathInit /\ [][PathNext]_vars


\* ================================================================== IKSpec
\* One call of inverse_kinematics (kinematics.py lines 140-192), an
\* iteration at a time.  Angles are whole thousandths of a degree, chain
\* angles too (the factor of np.radians and np.degrees is left out, the
\* offsets and the signs are kept).  A float is << v >>, and << >> when it
\* is NaN.

NaN == << >>
F(v) == << v >>
IsNaN(x) == x = NaN

\* Degrees in thousandths of a degree.
Deg(d) == 1000 * d

\* The comparisons x < y and x <= y of two floats: false when either is
\* NaN.
Less(x, y) == IF IsNaN(x) \/ IsNaN(y) THEN FALSE ELSE x[1] < y[1]
LessEq(x, y) == IF IsNaN(x) \/ IsNaN(y) THEN FALSE ELSE x[1] <= y[1]

\* -x and x + k of a float x.
Neg(x) == IF IsNaN(x) THEN NaN ELSE F(0 - x[1])
Plus(x, k) == IF IsNaN(x) THEN NaN ELSE F(x[1] + k)

\* The builtins min(a, b) and max(a, b): the first argument unless the
\* second compares below (above) it.
PyMin(a, b) == IF Less(b, a) THEN b ELSE a
PyMax(a, b) == IF Less(a, b) THEN b ELSE a

\* Lines 155 and 156.
max_iter == 10
tol == 1

\* The position errors the iterations of a call can have, in a unit they
\* are whole multiples of.
ErrorValues == {0, 1}

\* float('inf') of line 151, above every error of an iteration.
INF == 2

\* servo_angle_to_chain_angle, lines 99-115: ten chain angles, those of the
\* fixed links 0.
ServoToChain(s) ==
  [c \in 0..9 |->
     CASE c = 0 -> Plus(s[0], 0 - Deg(190))
       [] c = 2 -> Neg(Plus(s[1], 0 - Deg(130)))
       [] c = 4 -> Plus(s[2], 0 - Deg(130))
       [] c = 6 -> Plus(s[3], 0 - Deg(130))
       [] c = 8 -> Neg(Plus(s[4], 0 - Deg(130)))
       [] OTHER -> F(0)]

\* chain_angle_to_servo_angle, lines 117-130.
ChainToServoMutKeepsSign(c, current_gripper_angle) ==
  [j \in Servos |->
     CASE j = 0 -> Plus(c[0], Deg(190))
       [] j = 5 -> current_gripper_angle
       [] OTHER -> Plus(c[2 * j], Deg(130))]

ChainToServo(c, current_gripper_angle) ==
  [j \in Servos |->
     CASE j = 0 -> Plus(c[0], Deg(190))
       [] j = 1 -> Plus(Neg(c[2]), Deg(130))
       [] j = 2 -> Plus(c[4], Deg(130))
       [] j = 3 -> Plus(c[6], Deg(130))
       [] j = 4 -> Plus(Neg(c[8]), Deg(130))
       [] j = 5 -> current_gripper_angle]

\* Line 171: the angle of joint j held to its range.
ClampMutNone(j, x) == x

Clamp(j, x) ==
  PyMax(F(Deg(SERVO_LIMITS[j][1])), PyMin(F(Deg(SERVO_LIMITS[j][2])), x))

\* Lines 169-171: the five joints are clamped, the gripper entry is not.
ClampJoints(s) == [j \in Servos |-> IF j \in Joints THEN Clamp(j, s[j]) ELSE s[j]]

\* Line 160: whether the for loop makes iteration i.
LoopGoesOnMutOneMore(i) == i <= max_iter

LoopGoesOn(i) == i < max_iter

\* Line 177: whether an error replaces the best one so far.
IsBetterMutOrEqual(error, best) == error <= best

IsBetter(error, best) == error < best

\* Line 184: whether a change of diff ends the iteration.
ConvergedMutOrEqual(diff) == LessEq(diff, F(tol))

Converged(diff) == Less(diff, F(tol))

\* Lines 189-190: where a call goes when a pass raises.
AfterRaiseMutReturnsBest == "return"

AfterRaise == "raised"

Abs(n) == IF n < 0 THEN 0 - n ELSE n
SetMax(S) == CHOOSE m \in S : \A n \in S : n <= m

\* Line 183: the largest absolute difference of the entries of two angle
\* vectors, NaN when an entry is.
MaxAbsDiff(a, b) ==
  IF \E j \in Servos : IsNaN(a[j]) \/ IsNaN(b[j])
    THEN NaN
    ELSE F(SetMax({Abs(a[j][1] - b[j][1]) : j \in Servos}))

\* The chain angles that put every servo x away from DEFAULT_ANGLES.
ChainAt(x) ==
  [c \in 0..9 |->
     CASE c \in {0, 4, 6} -> x
       [] c \in {2, 8} -> Neg(x)
       [] OTHER -> F(0)]

\* Chain angles of x in every joint: far above the range of the servos 0, 2
\* and 3 and far below that of the servos 1 and 4 when x is 200 degrees.
ChainAll(x) == [c \in 0..9 |-> IF c \in {0, 2, 4, 6, 8} THEN x ELSE F(0)]

\* What inverse_kinematics_frame comes back with: the default pose, a pose
\* a thousandth of a degree away from it, a pose out of the range of every
\* joint, and NaN.
SolverOutputs ==
  {ChainAt(F(0)), ChainAt(F(1)), ChainAll(F(Deg(200))), ChainAt(NaN)}

\* The current_angles a caller hands over: the default pose with the gripper
\* open or closed.
Seeds ==
  {[j \in Servos |-> IF j = 5 THEN F(Deg(g)) ELSE F(Deg(DEFAULT_ANGLES[j]))] :
     g \in {GRIPPER_OPEN, GRIPPER_CLOSE}}

\* What IKSpec neither reads nor writes.
ikRest == << setup, armvars, ptvars, mvvars, shared, ctl, wloc,
             progress_cb, reported, hist >>

\* Lines 142-158: the call has been made and the loop is at its head.
IKInit ==
  /\ ArmInit
  /\ PtInit
  /\ MvIdle
  /\ Quiescent
  /\ pickup_points = << >>
  /\ place_points = << >>
  /\ return_home = TRUE
  /\ is_connected = FALSE
  /\ ik_pc = "for"
  /\ current_angles \in Seeds
  /\ ik_i = 0
  /\ current_chain_angles = ServoToChain(current_angles)
  /\ chain_angles = << >>
  /\ min_error = INF
  /\ best_servo_angles = << >>
  /\ prev_servo_angles = << >>
  /\ ik_ret = << >>
  /\ passes = 0
  /\ initial_position = << >>
  /\ last_servo_angles = << >>
  /\ last_error = INF
  /\ first_with = [e \in ErrorValues |-> << >>]

\* Line 160: the head of the for loop.
IKFor ==
  /\ ik_pc = "for"
  /\ ik_pc' = IF LoopGoesOn(ik_i) THEN "solve" ELSE "return"
  /\ UNCHANGED << current_angles, ik_i, current_chain_angles, chain_angles,
                  min_error, best_servo_angles, prev_servo_angles, ik_ret,
                  passes, initial_position, last_servo_angles, last_error,
                  first_with >>
  /\ UNCHANGED ikRest

\* Lines 162-165: a pass of the solver, seeded with current_chain_angles,
\* comes back with chain angles.
IKSolve ==
  /\ ik_pc = "solve"
  /\ chain_angles' \in SolverOutputs
  /\ initial_position' = current_chain_angles
  /\ passes' = passes + 1
  /\ ik_pc' = "iterate"
  /\ UNCHANGED << current_angles, ik_i, current_chain_angles, min_error,
                  best_servo_angles, prev_servo_angles, ik_ret,
                  last_servo_angles, last_error, first_with >>
  /\ UNCHANGED ikRest

\* Lines 162-165 and 189-190: the pass raises, and the call raises
\* ValueError.
IKSolveRaises ==
  /\ ik_pc = "solve"
  /\ initial_position' = current_chain_angles
  /\ passes' = passes + 1
  /\ ik_pc' = AfterRaise
  /\ UNCHANGED << current_angles, ik_i, current_chain_angles, chain_angles,
                  min_error, best_servo_angles, prev_servo_angles, ik_ret,
                  last_servo_angles, last_error, first_with >>
  /\ UNCHANGED ikRest

\* Lines 166-188: the result is converted and clamped, its error is taken
\* (it depends on the target and on the geometry of the arm, which are left
\* open), the best result is kept, and the loop is left when the angles
\* moved less than tol.
IKIterate ==
  /\ ik_pc = "iterate"
  /\ LET servo == ClampJoints(ChainToServo(chain_angles, current_angles[5]))
     IN
       /\ \E error \in ErrorValues :
            /\ IF IsBetter(error, min_error)
                 THEN /\ min_error' = error
                      /\ best_servo_angles' = servo
                 ELSE UNCHANGED << min_error, best_servo_angles >>
            /\ last_error' = error
            /\ first_with' = IF first_with[error] = << >>
                               THEN [first_with EXCEPT ![error] = servo]
                               ELSE first_with
       /\ last_servo_angles' = servo
       /\ IF /\ prev_servo_angles # << >>
             /\ Converged(MaxAbsDiff(servo, prev_servo_angles))
            THEN /\ ik_pc' = "return"
                 /\ UNCHANGED << prev_servo_angles, current_chain_angles,
                                 ik_i >>
            ELSE /\ prev_servo_angles' = servo
                 /\ current_chain_angles' = ServoToChain(servo)
                 /\ ik_i' = ik_i + 1
                 /\ ik_pc' = "for"
  /\ UNCHANGED << current_angles, chain_angles, ik_ret, passes,
                  initial_position >>
  /\ UNCHANGED ikRest

\* Line 192.
IKReturn ==
  /\ ik_pc = "return"
  /\ ik_ret' = << best_servo_angles, min_error >>
  /\ ik_pc' = "done"
  /\ UNCHANGED << current_angles, ik_i, current_chain_angles, chain_angles,
                  min_error, best_servo_angles, prev_servo_angles, passes,
                  initial_position, last_servo_angles, last_error,
                  first_with >>
  /\ UNCHANGED ikRest

IKNext ==
  \/ IKFor
  \/ IKSolve
  \/ IKSolveRaises
  \/ IKIterate
  \/ IKReturn

IKSpec == IKInit /\ [][IKNext]_vars

\* The call is a sequential piece of code: it takes its next step as long
\* as it has one.
IKFairSpec == IKSpec /\ WF_vars(IKNext)


\* ============================================================== PointsSpec
\* One run of the worker next to the operations of the control thread on
\* the two point lists.  No pause_task or stop_task is called in it.

\* The point an add or an edit dialog hands over.
NewPoints == {7}

\* What PointsSpec neither reads nor writes.
ptRest == << return_home, is_connected, current_step, task_stop_flag,
             task_pause_flag, ctl, step_no, num_segments, seg, success,
             outcome, progress_cb, reported, sends_after_stop, final_cb,
             requests, stopped, starts, last_call, armvars, ikvars, mvvars >>

\* The list s without its entry at the 0-based index i (del s[i]).
DelAt(s, i) == [k \in 1..(Len(s) - 1) |-> IF k <= i THEN s[k] ELSE s[k + 1]]

\* remove_pickup_point and remove_place_point, automation.py lines 57-65, on
\* the list they are about.
RemovePointMutFromTheEnd(s, index) ==
  IF index < Len(s) /\ Len(s) > 0
    THEN DelAt(s, (index + Len(s)) % Len(s))
    ELSE s

RemovePoint(s, index) ==
  IF 0 <= index /\ index < Len(s) THEN DelAt(s, index) ELSE s

\* update_pickup_point and update_place_point, lines 67-75.
UpdatePoint(s, index, point) ==
  IF 0 <= index /\ index < Len(s) THEN [s EXCEPT ![index + 1] = point] ELSE s

\* The points set up before the first start_task (by load_application_settings
\* or by hand), the return_home parameter, and the port connected.
PointsInit ==
  /\ ArmInit
  /\ PtInit
  /\ IKIdle
  /\ MvIdle
  /\ Quiescent
  /\ \E k \in 0..MaxPoints, l \in 0..MaxPoints :
       /\ pickup_points = PointList(k)
       /\ place_points = PointList(l)
  /\ return_home \in BOOLEAN
  /\ is_connected = TRUE

\* What a step of the worker in PointsSpec leaves alone.
PtWorkerFrame == UNCHANGED << ptRest, pickup_points, place_points, edits >>

\* start_task, lines 94-112, in one step, on lists that pass its checks.
PtStart(w) ==
  /\ pc[w] = "none"
  /\ StartCheck(pickup_points, place_points, is_connected) = "ok"
  /\ task_state' = RUNNING
  /\ current_task_index' = 0
  /\ pc' = [pc EXCEPT ![w] = "entry"]
  /\ UNCHANGED << total_tasks, task_index, failed >>
  /\ PtWorkerFrame

\* _execute_auto_task, line 142: the number of tasks is taken once, from the
\* pickup list as it is when the thread gets there.
PtEntry(w) ==
  /\ pc[w] = "entry"
  /\ total_tasks' = [total_tasks EXCEPT ![w] = Len(pickup_points)]
  /\ task_index' = [task_index EXCEPT ![w] = 0]
  /\ pc' = [pc EXCEPT ![w] = "for"]
  /\ UNCHANGED << task_state, current_task_index, failed >>
  /\ PtWorkerFrame

\* _execute_auto_task, lines 144-150: the head of the for loop and the two
\* subscripts.  A subscript past the end of its list raises IndexError, which
\* the except clause of lines 180-182 turns into ERROR.
PtFetch(w) ==
  /\ pc[w] = "for"
  /\ IF task_index[w] >= total_tasks[w]
       THEN /\ pc' = [pc EXCEPT ![w] = "end"]
            /\ UNCHANGED << task_state, current_task_index, failed >>
       ELSE /\ current_task_index' = task_index[w]
            /\ IF /\ task_index[w] < Len(pickup_points)
                  /\ task_index[w] < Len(place_points)
                 THEN /\ pc' = [pc EXCEPT ![w] = "cycle"]
                      /\ UNCHANGED << task_state, failed >>
                 ELSE /\ task_state' = ERROR
                      /\ failed' = [failed EXCEPT ![w] = @ \cup {"index"}]
                      /\ pc' = [pc EXCEPT ![w] = "done"]
  /\ UNCHANGED << total_tasks, task_index >>
  /\ PtWorkerFrame

\* _execute_auto_task, lines 156-159: _execute_single_task returns, and the
\* loop goes on or is left.
PtCycle(w) ==
  /\ pc[w] = "cycle"
  /\ \E ok \in BOOLEAN :
       IF BreaksLoop(ok, task_stop_flag)
         THEN /\ pc' = [pc EXCEPT ![w] = "end"]
              /\ UNCHANGED task_index
         ELSE /\ pc' = [pc EXCEPT ![w] = "for"]
              /\ task_index' = [task_index EXCEPT ![w] = @ + 1]
  /\ UNCHANGED << task_state, current_task_index, total_tasks, failed >>
  /\ PtWorkerFrame

\* _execute_auto_task, lines 162-178: the return home when it is configured,
\* and the final state.
PtEnd(w) ==
  /\ pc[w] = "end"
  /\ IF GoesHome(task_stop_flag, return_home)
       THEN \E ok \in SendResults : task_state' = HomeOutcome(ok)
       ELSE task_state' = EndOutcome(task_stop_flag)
  /\ pc' = [pc EXCEPT ![w] = "done"]
  /\ UNCHANGED << current_task_index, total_tasks, task_index, failed >>
  /\ PtWorkerFrame

\* What an operation on the point lists leaves alone: none of them looks at
\* task_state.
EditFrame ==
  /\ edits < MaxEdits
  /\ edits' = edits + 1
  /\ UNCHANGED << ptRest, task_state, current_task_index, pc, total_tasks,
                  task_index, failed >>

\* add_pickup_point, main.py lines 638-657 and automation.py lines 49-51.
AddPickupPoint ==
  /\ Len(pickup_points) < MaxPoints
  /\ \E point \in NewPoints : pickup_points' = Append(pickup_points, point)
  /\ UNCHANGED place_points
  /\ EditFrame

\* add_place_point, main.py lines 715-734 and automation.py lines 53-55.
AddPlacePoint ==
  /\ Len(place_points) < MaxPoints
  /\ \E point \in NewPoints : place_points' = Append(place_points, point)
  /\ UNCHANGED pickup_points
  /\ EditFrame

\* delete_pickup_point, main.py lines 691-713 and automation.py lines 57-60.
RemovePickupPoint ==
  /\ \E index \in 0..(MaxPoints - 1) :
       pickup_points' = RemovePoint(pickup_points, index)
  /\ UNCHANGED place_points
  /\ EditFrame

\* delete_place_point, main.py lines 768-790 and automation.py lines 62-65.
RemovePlacePoint ==
  /\ \E index \in 0..(MaxPoints - 1) :
       place_points' = RemovePoint(place_points, index)
  /\ UNCHANGED pickup_points
  /\ EditFrame

\* edit_pickup_point, main.py lines 659-689 and automation.py lines 67-70.
UpdatePickupPoint ==
  /\ \E index \in 0..(MaxPoints - 1), point \in NewPoints :
       pickup_points' = UpdatePoint(pickup_points, index, point)
  /\ UNCHANGED place_points
  /\ EditFrame

\* edit_place_point, main.py lines 736-766 and automation.py lines 72-75.
UpdatePlacePoint ==
  /\ \E index \in 0..(MaxPoints - 1), point \in NewPoints :
       place_points' = UpdatePoint(place_points, index, point)
  /\ UNCHANGED pickup_points
  /\ EditFrame

\* load_task_points, main.py lines 891-910: clear_all_points, then the
\* points of the file, whose two lists are taken as they come.
LoadTaskPoints ==
  /\ \E k \in 0..MaxPoints, l \in 0..MaxPoints :
       /\ pickup_points' = PointList(k)
       /\ place_points' = PointList(l)
  /\ EditFrame

PointsNext ==
  \/ \E w \in Workers : PtStart(w)
  \/ \E w \in Workers : PtEntry(w)
  \/ \E w \in Workers : PtFetch(w)
  \/ \E w \in Workers : PtCycle(w)
  \/ \E w \in Workers : PtEnd(w)
  \/ AddPickupPoint
  \/ AddPlacePoint
  \/ RemovePickupPoint
  \/ RemovePlacePoint
  \/ UpdatePickupPoint
  \/ UpdatePlacePoint
  \/ LoadTaskPoints

PointsSpec == PointsInit /\ [][PointsNext]_vars


\* ================================================================ CrudSpec
\* The remove and update methods of the controller (automation.py lines
\* 57-75) called on their own, with any index.

\* The indices of a call: below 0, in the list, and past its end.
Indices == (0 - MaxPoints)..MaxPoints

\* What a call of a remove or update method neither reads nor writes.
crRest == << return_home, is_connected, shared, ctl, wloc, progress_cb,
             reported, hist, armvars, ikvars, mvvars >>

\* The controller with some points in its lists.
CrudInit ==
  /\ ArmInit
  /\ PtInit
  /\ IKIdle
  /\ MvIdle
  /\ Quiescent
  /\ \E k \in 0..MaxPoints, l \in 0..MaxPoints :
       /\ pickup_points = PointList(k)
       /\ place_points = PointList(l)
  /\ return_home = TRUE
  /\ is_connected = FALSE

\* A call is made: the name, the index and the lists as they are go into
\* last_call.
CallFrame(name, index) ==
  /\ edits < MaxEdits
  /\ edits' = edits + 1
  /\ last_call' = [name |-> name, index |-> index,
                   pickup_points |-> pickup_points,
                   place_points |-> place_points]
  /\ UNCHANGED crRest

\* remove_pickup_point, lines 57-60.
CallRemovePickupPoint ==
  \E index \in Indices :
    /\ pickup_points' = RemovePoint(pickup_points, index)
    /\ UNCHANGED place_points
    /\ CallFrame("remove_pickup_point", index)

\* remove_place_point, lines 62-65.
CallRemovePlacePoint ==
  \E index \in Indices :
    /\ place_points' = RemovePoint(place_points, index)
    /\ UNCHANGED pickup_points
    /\ CallFrame("remove_place_point", index)

\* update_pickup_point, lines 67-70.
CallUpdatePickupPoint ==
  \E index \in Indices, point \in NewPoints :
    /\ pickup_points' = UpdatePoint(pickup_points, index, point)
    /\ UNCHANGED place_points
    /\ CallFrame("update_pickup_point", index)

\* update_place_point, lines 72-75.
CallUpdatePlacePoint ==
  \E index \in Indices, point \in NewPoints :
    /\ place_points' = UpdatePoint(place_points, index, point)
    /\ UNCHANGED pickup_points
    /\ CallFrame("update_place_point", index)

CrudNext ==
  \/ CallRemovePickupPoint
  \/ CallRemovePlacePoint
  \/ CallUpdatePickupPoint
  \/ CallUpdatePlacePoint

CrudSpec == CrudInit /\ [][CrudNext]_vars

\* ================================================================ PlanSpec
\* One motion step of the worker: _move_to_position_auto plans a waypoint
\* list (automation.py lines 243-279, 319-419).  A position is given by the
\* bearing of its XY projection (in fifths of a degree, so that the five
\* steps of an arc are whole), the norm of that projection (in micrometres)
\* and its height (in millimetres).  The distance of start and target, the
\* norms of the two positions and the angle between them are measured by
\* numpy: they are inputs here.

\* Degrees in fifths of a degree, and millimetres in micrometres.
Fifths(d) == 5 * d
Mm(x) == 1000 * x

\* Line 253 (0.01 m), line 263 (1e-6 m), line 270 (120 degrees) and line 339
\* (0.01 m).
DIRECT_DISTANCE == 10000
XY_EPSILON == 1
LARGE_TURN == 600
MIN_ARC_RADIUS == 10000

\* Lines 386 and 397 (1e-6 m, 1 degree in thousandths of a degree), lines
\* 360, 371 and 373, and 418.
SLERP_EPSILON == 1
SLERP_MIN_ANGLE == 1000
num_arc_steps == 5
TRANSITION_STEPS == 3
SPHERICAL_STEPS == 6

\* safe_height, line 38 and config.py line 60, in millimetres.
safe_height == 250

Pos(bearing, radius, height) == [b |-> bearing, r |-> radius, z |-> height]

\* Two positions are the same point: the bearing counts modulo a full turn,
\* and not at all on the axis.
SamePoint(p, q) ==
  /\ p.r = q.r
  /\ p.z = q.z
  /\ p.r = 0 \/ (p.b - q.b) % Fifths(360) = 0

\* Lines 265-268: the angle between the XY projections, between 0 and 180
\* degrees.
XYAngle(p, q) ==
  LET d == Abs(p.b - q.b) % Fifths(360)
  IN IF d > Fifths(180) THEN Fifths(360) - d ELSE d

\* A waypoint: the point a fraction num / den of the way from one position
\* to another, along a straight line ("lerp"), along a slerp curve
\* ("slerp"), or a position itself ("point").
Waypoint(mode, p1, p2, i, n) ==
  [mode |-> mode, from |-> p1, to |-> p2, num |-> i, den |-> n]
Exact(p) == Waypoint("point", p, p, 1, 1)

\* The position of a waypoint whose fraction is 1 (the weights of lines 389,
\* 400 and 406-409 are 0 and 1 then); one of a fraction between 0 and 1 lies
\* strictly between the two and is no position of the model.
Nowhere == Pos(0, 0 - 1, 0)
Position(w) == IF w.num = w.den THEN w.to ELSE Nowhere

\* _get_slerp_path, lines 386 and 397: whether the path is the linear
\* interpolation, from the norms r1 and r2 of the two positions and the
\* angle omega between them.
IsLinear(r1, r2, omega) ==
  r1 < SLERP_EPSILON \/ r2 < SLERP_EPSILON \/ omega < SLERP_MIN_ANGLE

\* _get_slerp_path, lines 387, 398 and 404: the i of the k-th pass of the
\* loop, range(1, num_steps + 1).
SlerpStepMutFromStart(k) == k - 1

SlerpStep(k) == k

\* _get_slerp_path, lines 380-411.
GetSlerpPath(p1, p2, num_steps, r1, r2, omega) ==
  LET mode == IF IsLinear(r1, r2, omega) THEN "lerp" ELSE "slerp"
  IN [k \in 1..num_steps |-> Waypoint(mode, p1, p2, SlerpStep(k), num_steps)]

\* _move_to_position_auto, lines 253-276: the function the move is handed
\* to.
MoveChoiceMutArcFirst(d, s, e) ==
  IF s.r > XY_EPSILON /\ e.r > XY_EPSILON /\ XYAngle(s, e) > LARGE_TURN
    THEN "arc"
  ELSE IF d < DIRECT_DISTANCE THEN "direct"
  ELSE "spherical"

MoveChoice(d, s, e) ==
  IF d < DIRECT_DISTANCE THEN "direct"
  ELSE IF s.r > XY_EPSILON /\ e.r > XY_EPSILON /\ XYAngle(s, e) > LARGE_TURN
    THEN "arc"
  ELSE "spherical"

\* _move_along_horizontal_arc_path, lines 338-341: the radius of the arc,
\* and the fall back to the spherical path.
ArcRadius(s, e) == IF e.r < s.r THEN e.r ELSE s.r
ArcFallsBack(s, e) == ArcRadius(s, e) < MIN_ARC_RADIUS

\* The strategy a move ends up with.
Strategy(d, s, e) ==
  IF MoveChoice(d, s, e) = "arc" /\ ArcFallsBack(s, e)
    THEN "spherical"
    ELSE MoveChoice(d, s, e)

\* Lines 356-358: the turn of the arc, the shorter way round.
AngleDiff(s, e) ==
  LET d == e.b - s.b
  IN IF d > Fifths(180) THEN d - Fifths(360)
     ELSE IF d < 0 - Fifths(180) THEN d + Fifths(360)
     ELSE d

\* Lines 345-349: where the arc is entered and left.
ArcEntry(s, e) == Pos(s.b, ArcRadius(s, e), safe_height)
ArcExit(s, e) == Pos(e.b, ArcRadius(s, e), safe_height)

\* Lines 360-367: the points of the arc.
ArcPoints(s, e) ==
  [i \in 1..num_arc_steps |->
     Exact(Pos(s.b + (i * AngleDiff(s, e)) \div num_arc_steps,
               ArcRadius(s, e), safe_height))]

\* Lines 371-375: the parts of the arc path in their order.
ArcPathMutNoWayOut(path1, path2, path3) == path1 \o path2

ArcPath(path1, path2, path3) == path1 \o path2 \o path3

\* The list handed to _execute_path: line 321, line 418, lines 371-375.  m1
\* and m2 are what numpy measures for the two slerp paths.
PlannedPath(d, s, e, m1, m2) ==
  CASE Strategy(d, s, e) = "direct" -> << Exact(e) >>
    [] Strategy(d, s, e) = "spherical" ->
         GetSlerpPath(s, e, SPHERICAL_STEPS, m1[1], m1[2], m1[3])
    [] Strategy(d, s, e) = "arc" ->
         ArcPath(GetSlerpPath(s, ArcEntry(s, e), TRANSITION_STEPS,
                              m1[1], m1[2], m1[3]),
                 ArcPoints(s, e),
                 GetSlerpPath(ArcExit(s, e), e, TRANSITION_STEPS,
                              m2[1], m2[2], m2[3]))

\* Starts and targets: on the axis, a micrometre and two micrometres off
\* it, just below and at the least radius of an arc, and far out; a quarter
\* turn, 120 degrees, 121 degrees and half a turn apart, and across the
\* bearing of 180 degrees (130 degrees from 170 to -60).
StartPoints ==
  {Pos(Fifths(0), Mm(150), 50), Pos(Fifths(170), Mm(10), 50),
   Pos(Fifths(0), 1, 50)}
EndPoints ==
  {Pos(Fifths(b), r, 50) :
     b \in {90, 120, 121, 180, 0 - 60}, r \in {0, 1, 2, 9999, Mm(10), Mm(150)}}

\* Distances of start and target: none, just below and at 0.01 m, and far.
Distances == {0, 9999, Mm(10), Mm(200)}

\* Norms of two positions and the angle between them, in thousandths of a
\* degree: apart, and close to parallel.
SlerpMeasures == {<< Mm(150), Mm(150), 90000 >>, << Mm(150), Mm(150), 999 >>}

\* What a motion step followed on its own neither reads nor writes.
mvRest == << setup, armvars, ptvars, ikvars, shared, ctl, wloc, progress_cb,
             reported, hist >>

\* What a step of _execute_path leaves alone besides its own variables.
exRest == << start_pos, end_pos, dist, strategy, full_path, slvars, cvvars,
             mvRest >>

\* _execute_path, lines 287-289 and 299: the number of segments of a path,
\* whether the call returns at once, and the index of the waypoint of pass i.
NumSegmentsMutNoStart(path) == Len(path)

NumSegments(path) == Len(path) - 1

ReturnsAtOnce(n) == n <= 0

WaypointIndex(i) == i + 1

\* What inverse_kinematics comes back with in line 302: angles, no angles,
\* or an exception.
IKOutcomes == {"angles", "none", "raise"}

\* The worker is at the head of _move_to_position_auto, current_angles at a
\* start and the target given.
PlanInit ==
  /\ ArmInit
  /\ PtInit
  /\ IKIdle
  /\ Quiescent
  /\ ExIdle
  /\ SlIdle
  /\ CvIdle
  /\ pickup_points = << >>
  /\ place_points = << >>
  /\ return_home = TRUE
  /\ is_connected = TRUE
  /\ pl_pc = "plan"
  /\ start_pos \in StartPoints
  /\ end_pos \in EndPoints
  /\ dist \in Distances
  /\ strategy = "none"
  /\ full_path = << >>

\* _move_to_position_auto, lines 249-276, with the function it hands the
\* move to down to its call of _execute_path (line 322, lines 329-378, lines
\* 417-419).
PlanMove ==
  /\ pl_pc = "plan"
  /\ \E m1 \in SlerpMeasures, m2 \in SlerpMeasures :
       full_path' = PlannedPath(dist, start_pos, end_pos, m1, m2)
  /\ strategy' = Strategy(dist, start_pos, end_pos)
  /\ pl_pc' = "enter"
  /\ UNCHANGED << start_pos, end_pos, dist, exvars, slvars, cvvars, mvRest >>

\* _execute_path, lines 287-291.
ExEnter ==
  /\ pl_pc = "enter"
  /\ path_segments' = NumSegments(full_path)
  /\ IF ReturnsAtOnce(NumSegments(full_path))
       THEN /\ result' = "True"
            /\ pl_pc' = "done"
       ELSE /\ pl_pc' = "for"
            /\ UNCHANGED result
  /\ path_i' = 0
  /\ UNCHANGED << solved, ik_calls, dispatched, stored, exRest >>

\* _execute_path, lines 293-297, and line 317 when the loop is through: the
\* stop flag is up or down when it is polled (a pause flag delays the poll).
ExFor ==
  /\ pl_pc = "for"
  /\ IF path_i >= path_segments
       THEN /\ result' = "True"
            /\ pl_pc' = "done"
       ELSE \E stop \in BOOLEAN :
              IF stop
                THEN /\ result' = "False"
                     /\ pl_pc' = "done"
                ELSE /\ pl_pc' = "solve"
                     /\ UNCHANGED result
  /\ UNCHANGED << path_segments, path_i, solved, ik_calls, dispatched, stored,
                  exRest >>

\* _execute_path, lines 299-305: inverse_kinematics is called for the
\* waypoint of the pass; with no angles the pass is over, and an exception
\* ends the move in lines 277-279.
ExSolve ==
  /\ pl_pc = "solve"
  /\ ik_calls' = Append(ik_calls, WaypointIndex(path_i))
  /\ \E out \in IKOutcomes :
       CASE out = "angles" ->
              /\ solved' = WaypointIndex(path_i)
              /\ pl_pc' = "send"
              /\ UNCHANGED << path_i, result >>
         [] out = "none" ->
              /\ path_i' = path_i + 1
              /\ pl_pc' = "for"
              /\ UNCHANGED << solved, result >>
         [] out = "raise" ->
              /\ result' = "False"
              /\ pl_pc' = "done"
              /\ UNCHANGED << solved, path_i >>
  /\ UNCHANGED << path_segments, dispatched, stored, exRest >>

\* _execute_path, lines 307-316: the command of the waypoint is sent;
\* current_angles takes its angles when the send succeeded, and the call
\* returns False when it failed.
ExSend ==
  /\ pl_pc = "send"
  /\ \E ok \in SendResults :
       /\ dispatched' = Append(dispatched, << solved, ok >>)
       /\ IF ok
            THEN /\ stored' = solved
                 /\ path_i' = path_i + 1
                 /\ pl_pc' = "for"
                 /\ UNCHANGED result
            ELSE /\ result' = "False"
                 /\ pl_pc' = "done"
                 /\ UNCHANGED << stored, path_i >>
  /\ solved' = 0 - 1
  /\ UNCHANGED << path_segments, ik_calls, exRest >>

PlanNext ==
  \/ PlanMove
  \/ ExEnter
  \/ ExFor
  \/ ExSolve
  \/ ExSend

PlanSpec == PlanInit /\ [][PlanNext]_vars


\* ================================================================= ExecSpec
\* One call of _execute_path (lines 281-317) on any list of waypoints.

\* The longest list a call is made with.
MaxPath == 3

\* The waypoints of such a list.
PathPoints == {Exact(Pos(Fifths(0), Mm(150), 50)),
               Exact(Pos(Fifths(90), Mm(150), 50))}

\* The call has been made.
ExecInit ==
  /\ ArmInit
  /\ PtInit
  /\ IKIdle
  /\ Quiescent
  /\ ExIdle
  /\ SlIdle
  /\ CvIdle
  /\ pickup_points = << >>
  /\ place_points = << >>
  /\ return_home = TRUE
  /\ is_connected = TRUE
  /\ pl_pc = "enter"
  /\ start_pos = << >>
  /\ end_pos = << >>
  /\ dist = 0
  /\ strategy = "none"
  /\ \E k \in 0..MaxPath : full_path \in [1..k -> PathPoints]

ExecNext ==
  \/ ExEnter
  \/ ExFor
  \/ ExSolve
  \/ ExSend

ExecSpec == ExecInit /\ [][ExecNext]_vars

\* ================================================================ SlerpSpec
\* One call of _get_slerp_path (lines 380-411) on two positions of the plane
\* z = 0, where the norm of a position is the norm of its XY projection and
\* the angle between two positions is the angle of their projections.

\* Lines 383-384: the norm of a position of the plane z = 0, in micrometres.
Norm(p) == p.r

\* Lines 392-395: the angle of two positions of the plane z = 0 off the
\* origin, in thousandths of a degree.
Omega(p, q) == 200 * XYAngle(p, q)

\* The origin, a micrometre off it, and positions 150 mm off it at the
\* bearings of 0, 0.8, 1, 90 and 180 degrees.
SlerpPoints ==
  {Pos(0, 0, 0), Pos(0, 1, 0)}
    \cup {Pos(b, Mm(150), 0) : b \in {0, 4, 5, Fifths(90), Fifths(180)}}

\* The most steps a call is made with.
MaxSteps == 3

\* What a call of _get_slerp_path neither reads nor writes.
slRest == << planvars, exvars, cvvars, mvRest >>

\* The call has been made, with two different positions.
SlerpInit ==
  /\ ArmInit
  /\ PtInit
  /\ IKIdle
  /\ Quiescent
  /\ PlanIdle
  /\ ExIdle
  /\ CvIdle
  /\ pickup_points = << >>
  /\ place_points = << >>
  /\ return_home = TRUE
  /\ is_connected = FALSE
  /\ sl_pc = "call"
  /\ sl_p1 \in SlerpPoints
  /\ sl_p2 \in SlerpPoints
  /\ ~SamePoint(sl_p1, sl_p2)
  /\ sl_steps \in 1..MaxSteps
  /\ sl_path = << >>

\* Lines 382-411.
SlerpCall ==
  /\ sl_pc = "call"
  /\ sl_path' = GetSlerpPath(sl_p1, sl_p2, sl_steps, Norm(sl_p1), Norm(sl_p2),
                             Omega(sl_p1, sl_p2))
  /\ sl_pc' = "done"
  /\ UNCHANGED << sl_p1, sl_p2, sl_steps, slRest >>

SlerpNext == SlerpCall

SlerpSpec == SlerpInit /\ [][SlerpNext]_vars


\* ================================================================ ConvSpec
\* servo_angle_to_chain_angle followed by chain_angle_to_servo_angle
\* (kinematics.py lines 99-130) on one vector of servo angles.  Chain angles
\* are carried in thousandths of a degree as in IKSpec: np.radians and
\* np.degrees are a change of unit, and what their rounding adds (less than
\* 1e-13 degrees) is below the grid of the angles.

\* The angles of a channel: the least and the greatest a servo takes, and
\* one in between that is no whole degree.
ChannelAngles == {F(Deg(0)), F(Deg(130) + 500), F(Deg(270))}

\* What a round trip neither reads nor writes.
cvRest == << planvars, exvars, slvars, mvRest >>

\* A vector of six servo angles is given.
ConvInit ==
  /\ ArmInit
  /\ PtInit
  /\ IKIdle
  /\ Quiescent
  /\ PlanIdle
  /\ ExIdle
  /\ SlIdle
  /\ pickup_points = << >>
  /\ place_points = << >>
  /\ return_home = TRUE
  /\ is_connected = FALSE
  /\ cv_pc = "servo"
  /\ cv_servo \in [Servos -> ChannelAngles]
  /\ cv_chain = << >>
  /\ cv_back = << >>

\* servo_angle_to_chain_angle, lines 99-115.
ConvToChain ==
  /\ cv_pc = "servo"
  /\ cv_chain' = ServoToChain(cv_servo)
  /\ cv_pc' = "chain"
  /\ UNCHANGED << cv_servo, cv_back, cvRest >>

\* chain_angle_to_servo_angle, lines 117-130, with the gripper angle of the
\* vector the round trip began with.
ConvToServo ==
  /\ cv_pc = "chain"
  /\ cv_back' = ChainToServo(cv_chain, cv_servo[5])
  /\ cv_pc' = "done"
  /\ UNCHANGED << cv_servo, cv_chain, cvRest >>

ConvNext ==
  \/ ConvToChain
  \/ ConvToServo

ConvSpec == ConvInit /\ [][ConvNext]_vars

\* ------------------------------------------------------------------ claims

\* C1 (as claimed): a start_task that passes its checks and goes on to create
\* the worker thread (line 111) finds no worker alive, so that at most one
\* execution loop is active at any time.
C1_StartRejectedWhileWorkerAlive ==
  cpc = "start_spawn" => \A w \in Workers : ~Alive(w)

\* C2 (as claimed): with no stop_task called, a worker in which a sub-step of
\* a cycle failed (a dispatch returned failure or the step raised) settles in
\* ERROR, and one that settles in COMPLETED had no failure and ran every task.
C2_FailedCycleSettlesInError ==
  \A w \in Workers :
    pc[w] = "done" /\ "stop" \notin requests[w] =>
      /\ failed[w] \cap {"send", "ik"} # {} => outcome[w] = ERROR
      /\ outcome[w] = COMPLETED =>
           failed[w] = {} /\ task_index[w] = total_tasks[w]

\* C3 (as claimed): from the moment stop_task has written IDLE, and as long as
\* no start_task follows, task_state is IDLE: no worker writes COMPLETED or
\* ERROR over it.
C3_StoppedStaysIdle ==
  stopped => task_state = IDLE

\* C4: with the stop flag up and no start_task since, a worker makes at most
\* one more send_command call.
C4_AtMostOneSendAfterStop ==
  \A w \in Workers : sends_after_stop[w] <= 1

\* A worker that has ended after stop_task came in past its last stop test:
\* it made the one call in flight and no other.
C4_Witness ==
  \E w \in Workers :
    /\ pc[w] = "done"
    /\ sends_after_stop[w] = 1
    /\ "start" \notin requests[w]

\* A send_command call of worker w: a waypoint, a gripper or the return-home
\* command.
Sends(w) == W_PathSend(w) \/ W_Grip(w) \/ W_HomeSend(w)

\* C5 (as claimed): while task_state is PAUSED no worker calls send_command
\* and no worker writes task_state.
C5_PausedWorkerHalts ==
  [][task_state = PAUSED =>
       \A w \in Workers : ~Sends(w) /\ ~W_WriteFinal(w)]_vars

\* C6: a start_task with an empty pickup list, an empty place list, lists of
\* unequal length or no connection returns failure, writes none of
\* task_state, current_task_index, current_step and the two flags and starts
\* no thread; any other start_task writes RUNNING, index 0,
\* MOVE_TO_SAFE_HEIGHT and both flags down, then starts exactly one thread and
\* returns success.
C6_StartTaskChecksThenResets ==
  [][/\ StartTask =>
          IF \/ Len(pickup_points) = 0
             \/ Len(place_points) = 0
             \/ Len(pickup_points) # Len(place_points)
             \/ ~is_connected
            THEN /\ cpc' = "return"
                 /\ cret'[1] = FALSE
                 /\ UNCHANGED << shared, pc >>
            ELSE /\ task_state' = RUNNING
                 /\ current_task_index' = 0
                 /\ current_step' = MOVE_TO_SAFE_HEIGHT
                 /\ ~task_stop_flag'
                 /\ ~task_pause_flag'
                 /\ cpc' = "start_spawn"
                 /\ UNCHANGED pc
     /\ cpc = "start_spawn" /\ cpc' # cpc =>
          /\ Cardinality({w \in Workers : ~Alive(w) /\ pc'[w] = "for"}) = 1
          /\ \A w \in Workers : Alive(w) => pc'[w] = pc[w]
          /\ cpc' = "start_notify"
     /\ cpc = "start_notify" /\ cpc' # cpc =>
          /\ cpc' = "return"
          /\ cret'[1] = TRUE
     /\ (\E w \in Workers : ~Alive(w) /\ pc'[w] = "for") =>
          cpc = "start_spawn"
    ]_vars

\* start_task has returned failure on lists that are not empty and differ in
\* length, with the connection up.
C6_Witness ==
  /\ cpc = "return"
  /\ cret = << FALSE, "count" >>
  /\ Len(pickup_points) # 0
  /\ Len(place_points) # 0
  /\ Len(pickup_points) # Len(place_points)
  /\ is_connected
  /\ task_state = IDLE
  /\ \A w \in Workers : pc[w] = "none"

\* The nine reports of the cycle of task i, in the order of the claim.
CycleLog(i) ==
  << << "MOVE_TO_SAFE_HEIGHT", i >>, << "MOVE_TO_PICKUP_ABOVE", i >>,
     << "MOVE_TO_PICKUP", i >>, << "GRIP_CLOSE", i >>,
     << "MOVE_UP_FROM_PICKUP", i >>, << "MOVE_TO_PLACE_ABOVE", i >>,
     << "MOVE_TO_PLACE", i >>, << "GRIP_OPEN", i >>,
     << "MOVE_UP_FROM_PLACE", i >> >>

RECURSIVE CyclesLog(_)
\* The reports of the cycles of tasks 0 .. n-1.
CyclesLog(n) == IF n = 0 THEN << >> ELSE CyclesLog(n - 1) \o CycleLog(n - 1)

\* The reports of a whole run of n tasks that completes.
RunLog(n, home) ==
  CyclesLog(n)
    \o (IF home THEN << << "RETURN_HOME", n - 1 >> >> ELSE << >>)
    \o << << "TASK_COMPLETE", n - 1 >> >>

\* What C7 claims of a worker that has ended.
RanToCompletion(w) ==
  /\ reported[w] = RunLog(total_tasks[w], return_home)
  /\ outcome[w] = COMPLETED
  /\ final_cb[w] = << 0, total_tasks[w] >>

CycleLeft ==
  {"task_ret", "end_check", "home_report", "home_send", "end_check2",
   "write_final", "final"}

\* C8: a worker in whose cycle a sub-step failed, or which saw the stop flag
\* up, reports and runs no other sub-step (it is on its way out of the for
\* loop from then on), and it goes to the next task index only from a cycle
\* whose nine sub-steps all returned success.
C8_CycleAbortedAtFirstFailure ==
  [][\A w \in Workers :
       /\ Alive(w)' /\ (~success'[w] \/ failed'[w] \cap {"send", "ik"} # {})
            => pc'[w] \in CycleLeft
       /\ Alive(w) /\ Alive(w)' /\ task_index'[w] # task_index[w] =>
            /\ task_index'[w] = task_index[w] + 1
            /\ success[w]
            /\ step_no[w] = NumSteps + 1
            /\ failed[w] = {}
            /\ Len(reported[w]) = NumSteps * task_index'[w]
    ]_vars

\* A worker has ended whose first cycle of two was cut short by a failed
\* dispatch: it reported no step of the second task.
C8_Witness ==
  \E w \in Workers :
    /\ pc[w] = "done"
    /\ "send" \in failed[w]
    /\ total_tasks[w] = 2
    /\ task_index[w] = 0
    /\ \A k \in 1..Len(reported[w]) : reported[w][k][2] = 0

\* C9: pause_task in RUNNING raises the pause flag and writes PAUSED, in
\* PAUSED lowers the flag and writes RUNNING, in IDLE, COMPLETED and ERROR
\* writes neither flag nor state; it never writes the stop flag, and it
\* returns true exactly when task_state is PAUSED as it returns.
C9_PauseTogglesRunningPaused ==
  [][/\ cpc = "idle" /\ cpc' \in {"pause_state", "resume_state", "pause_notify"}
          => /\ task_state = RUNNING =>
                  task_pause_flag' /\ cpc' = "pause_state"
             /\ task_state = PAUSED =>
                  ~task_pause_flag' /\ cpc' = "resume_state"
             /\ task_state \in {IDLE, COMPLETED, ERROR} =>
                  cpc' = "pause_notify" /\ UNCHANGED task_pause_flag
             /\ UNCHANGED << task_state, task_stop_flag >>
     /\ cpc = "pause_state" /\ cpc' # cpc
          => /\ task_state' = PAUSED
             /\ cpc' = "pause_notify"
             /\ UNCHANGED << task_stop_flag, task_pause_flag >>
     /\ cpc = "resume_state" /\ cpc' # cpc
          => /\ task_state' = RUNNING
             /\ cpc' = "pause_notify"
             /\ UNCHANGED << task_stop_flag, task_pause_flag >>
     /\ cpc = "pause_notify" /\ cpc' # cpc
          => /\ cret' = << task_state' = PAUSED >>
             /\ cpc' = "return"
             /\ UNCHANGED << task_state, task_stop_flag, task_pause_flag >>
    ]_vars

\* pause_task has returned true from a run it paused.
C9_Witness ==
  /\ cpc = "return"
  /\ cret = << TRUE >>
  /\ task_state = PAUSED
  /\ task_pause_flag
  /\ ~task_stop_flag

\* C10 (as claimed): every progress notification carries current_task_index
\* + 1 when task_state is RUNNING or PAUSED and 0 otherwise, next to the
\* number of tasks; the last notification of a worker carries 0 (here of a
\* worker during which no start_task was called).
C10_ProgressZeroUnlessActive ==
  /\ [][progress_cb' # << >> =>
          progress_cb' =
            << IF task_state' \in {RUNNING, PAUSED}
                 THEN current_task_index' + 1 ELSE 0,
               Len(pickup_points') >>]_vars
  /\ [](\A w \in Workers :
          pc[w] = "done" /\ "start" \notin requests[w] => final_cb[w][1] = 0)

\* C11 (as claimed): while task_state is RUNNING or PAUSED, a step that is
\* not the worker's (a manual operation of the control thread) leaves
\* current_angles of the controller, the seed of the worker's next solve, as
\* it is.
C11_OnlyWorkerWritesSeed ==
  [][(task_state \in {RUNNING, PAUSED} /\ pc' = pc)
       => (auto_angles' = auto_angles)]_vars

\* C12 (as claimed): while task_state is RUNNING or PAUSED the pickup list and
\* the place list have the same length, and no worker takes a subscript of
\* either list that is past its end.
C12_ListsEqualWhileRunning ==
  /\ task_state \in {RUNNING, PAUSED} =>
       Len(pickup_points) = Len(place_points)
  /\ \A w \in Workers : "index" \notin failed[w]

\* The waypoints of the path in hand whose dispatch succeeded.
OkSends == SelectSeq(path_sends, LAMBDA e : e[2])

\* The angles of the last waypoint of the path dispatched with success, and
\* current_angles as the path found it when there is none.
LastDispatched ==
  IF OkSends = << >> THEN path_start ELSE OkSends[Len(OkSends)][3]

\* C13: the send of a waypoint that fails makes the step return failure at
\* once and leaves current_angles as it is, and one that succeeds stores the
\* angles of the waypoint in joints 0-4; a waypoint whose send failed is
\* the last one its path dispatched; and as long as no manual operation
\* comes in, joints 0-4 of current_angles are those of the last waypoint
\* dispatched with success.
C13_FailedSendAbortsPath ==
  /\ [][\A w \in Workers :
          (pc[w] = "path_send" /\ pc'[w] # pc[w]) =>
            LET e == path_sends'[Len(path_sends')] IN
              /\ Len(path_sends') = Len(path_sends) + 1
              /\ e[3] = servo_angles
              /\ IF e[2]
                   THEN /\ \A j \in Joints : auto_angles'[j] = servo_angles[j]
                        /\ auto_angles'[5] = auto_angles[5]
                        /\ pc'[w] = "path_check"
                        /\ seg'[w] = seg[w] + 1
                        /\ success'[w] = success[w]
                   ELSE /\ auto_angles' = auto_angles
                        /\ pc'[w] = "end_check"
                        /\ ~success'[w]
       ]_vars
  /\ [](\A k \in 1..Len(path_sends) :
          ~path_sends[k][2] =>
            /\ k = Len(path_sends)
            /\ \A w \in Workers :
                 pc[w] \in {"end_check", "home_send", "done"} /\ ~success[w])
  /\ [](\A w \in Workers :
          (manual = 0 /\ path_start # << >> /\ pc[w] \notin {"none", "done"})
            => \A j \in Joints : auto_angles[j] = LastDispatched[j])

\* The second waypoint of a path failed to send after the first was
\* dispatched with other angles: current_angles holds those of the first.
C13_Witness ==
  /\ Len(path_sends) = 2
  /\ path_sends[1][2]
  /\ ~path_sends[2][2]
  /\ path_sends[1][3] # path_sends[2][3]
  /\ manual = 0
  /\ \A j \in Joints : auto_angles[j] = path_sends[1][3][j]
  /\ \E w \in Workers : pc[w] = "end_check" /\ ~success[w]

\* C14: when inverse_kinematics raises in a waypoint, the step returns
\* failure and the worker is on its way out of the for loop; from then on it
\* dispatches no waypoint and no gripper command, reports no step of a
\* cycle and goes to no other task; and it ends as every worker does, with
\* a final state written and the last notification made.
C14_IKErrorAbortsCycle ==
  /\ [][\A w \in Workers :
          /\ ("ik" \notin failed[w] /\ "ik" \in failed'[w]) =>
               /\ pc[w] = "path_exec"
               /\ pc'[w] \in CycleLeft
               /\ ~success'[w]
          /\ ("ik" \in failed[w] /\ Alive(w)) =>
               /\ ~W_PathSend(w)
               /\ ~W_Grip(w)
               /\ ~W_StepReport(w)
               /\ pc'[w] \in CycleLeft \cup {"done"}
               /\ task_index'[w] = task_index[w]
       ]_vars
  /\ [](\A w \in Workers :
          ("ik" \in failed[w] /\ pc[w] = "done") =>
            /\ outcome[w] \in TaskState
            /\ final_cb[w] # << >>)

\* A worker has ended in whose first task of two inverse_kinematics raised:
\* it went to no second task.
C14_Witness ==
  \E w \in Workers :
    /\ pc[w] = "done"
    /\ "ik" \in failed[w]
    /\ total_tasks[w] = 2
    /\ task_index[w] = 0
    /\ Len(reported[w]) >= 2

\* C15: every command _execute_path has built holds one part for each of
\* the servos 0-4 and none for the gripper; the steps of the worker inside
\* a path leave current_angles[5] as it is; and a gripper step leaves joints
\* 0-4 as they are, writes its angle into current_angles[5] when its send
\* succeeded and leaves it as it is when the send failed.
C15_WaypointsLeaveGripper ==
  /\ [](\A k \in 1..Len(path_sends) :
          LET command == path_sends[k][1] IN
            /\ Len(command) = 5
            /\ \A i \in 1..Len(command) : command[i][1] = i - 1)
  /\ [][\A w \in Workers :
          /\ (/\ pc[w] \in {"plan", "path_check", "path_exec", "path_send"}
              /\ pc'[w] # pc[w])
               => auto_angles'[5] = auto_angles[5]
          /\ (pc[w] = "grip" /\ pc'[w] # pc[w]) =>
               /\ \A j \in Joints : auto_angles'[j] = auto_angles[j]
               /\ auto_angles'[5] =
                    IF success'[w] THEN GripAngle(steps[step_no[w]])
                                   ELSE auto_angles[5]
       ]_vars

\* A waypoint has been dispatched after the gripper was closed: the joints
\* hold the angles of the waypoint and the gripper entry is still closed.
C15_Witness ==
  /\ Len(path_sends) >= 1
  /\ path_sends[Len(path_sends)][2]
  /\ auto_angles[5] = GRIPPER_CLOSE
  /\ \A j \in Joints : auto_angles[j] \in SolvedAngles
  /\ \E w \in Workers : pc[w] = "path_check" /\ step_no[w] = 5

\* C16: in what inverse_kinematics returns, whatever the passes of the solver
\* came back with, each of the five joint angles is a number inside
\* SERVO_LIMITS of its joint, and the gripper entry is that of the
\* current_angles of the caller.
C16_ResultWithinServoLimits ==
  ik_ret # << >> =>
    LET angles == ik_ret[1] IN
      /\ angles # << >>
      /\ \A j \in Joints :
           /\ ~IsNaN(angles[j])
           /\ Deg(SERVO_LIMITS[j][1]) <= angles[j][1]
           /\ angles[j][1] <= Deg(SERVO_LIMITS[j][2])
      /\ angles[5] = current_angles[5]

\* A call has returned the result of a pass that came back with NaN for
\* every joint, for a caller whose gripper is closed.
C16_Witness ==
  /\ ik_pc = "done"
  /\ chain_angles = ChainAt(NaN)
  /\ ik_ret[1] = last_servo_angles
  /\ current_angles[5] = F(Deg(GRIPPER_CLOSE))

\* The errors the iterations of the call have had.
ErrorsSeen == {e \in ErrorValues : first_with[e] # << >>}

\* C17: the error inverse_kinematics returns is the least of the errors of
\* its iterations, and the angles it returns are those of the first
\* iteration that had that error.
C17_ReturnsEarliestBest ==
  ik_pc = "done" =>
    /\ ik_ret[2] \in ErrorsSeen
    /\ \A e \in ErrorsSeen : ik_ret[2] <= e
    /\ ik_ret[1] = first_with[ik_ret[2]]

\* A call has returned whose last iteration had a larger error, with other
\* angles, than the result returned.
C17_Witness ==
  /\ ik_pc = "done"
  /\ passes >= 3
  /\ ik_ret[2] < last_error
  /\ ik_ret[1] # last_servo_angles

\* C18: a call makes at most 10 passes of the solver and comes to its end;
\* the first pass is seeded with the chain angles of current_angles and
\* every other with those of the clamped result of the pass before; and the
\* loop is left at the cap of 10 iterations unless an iteration moved the
\* angles by less than the tolerance.
C18_AtMostTenPasses ==
  /\ [](passes <= 10)
  /\ [][passes' = passes + 1 =>
          initial_position' =
            IF passes = 0 THEN ServoToChain(current_angles)
                          ELSE ServoToChain(prev_servo_angles)]_vars
  /\ [](ik_pc \in {"return", "done"} =>
          \/ ik_i = 10 /\ passes = 10
          \/ /\ ik_i < 10
             /\ passes = ik_i + 1
             /\ Less(MaxAbsDiff(last_servo_angles, prev_servo_angles),
                     F(tol)))
  /\ <>(ik_pc \in {"done", "raised"})

\* A call has returned after ten passes, the last of which still moved the
\* angles by more than the tolerance.
C18_Witness ==
  /\ ik_pc = "done"
  /\ passes = 10
  /\ ik_i = 10
  /\ Less(F(tol),
          MaxAbsDiff(last_servo_angles,
                     ChainToServo(initial_position, current_angles[5])))

\* C19 (as claimed): an iteration after the first whose clamped angles
\* differ from those of the iteration before by the tolerance or less, in
\* the largest entry, ends the loop.
C19_StopsAtOrBelowTolerance ==
  [][(/\ ik_pc = "iterate"
      /\ ik_pc' # ik_pc
      /\ prev_servo_angles # << >>
      /\ LessEq(MaxAbsDiff(last_servo_angles', prev_servo_angles), F(tol)))
       => ik_pc' = "return"]_vars

\* C19 (amended): an iteration ends the loop exactly when it is not the
\* first and its clamped angles differ from those of the iteration before
\* by less than the tolerance in the largest entry: a change equal to the
\* tolerance goes on to the next iteration.  Once the loop is left no pass
\* of the solver is made.
C19_StopsBelowTolerance ==
  /\ [][(ik_pc = "iterate" /\ ik_pc' # ik_pc) =>
          (ik_pc' = "return" <=>
             /\ prev_servo_angles # << >>
             /\ Less(MaxAbsDiff(last_servo_angles', prev_servo_angles),
                     F(tol)))]_vars
  /\ [][(ik_pc = "iterate" /\ ik_pc' = "return") =>
          ik_i' = ik_i /\ ik_i >= 1]_vars
  /\ [][(ik_pc \in {"return", "done"}) => (passes' = passes)]_vars

\* The loop has been left by its third iteration, which moved no angle,
\* after the second had moved the angles by the tolerance exactly.
C19_Witness ==
  /\ ik_pc = "return"
  /\ passes = 3
  /\ ik_i = 2
  /\ last_servo_angles = prev_servo_angles
  /\ \E e \in ErrorsSeen : MaxAbsDiff(first_with[e], prev_servo_angles) = F(tol)

\* C20: a pass of the solver that raises makes the call raise, whatever the
\* iterations before it have found: the call takes no other step and
\* returns no pair.
C20_SolverErrorIsRaised ==
  /\ [][IKSolveRaises => ik_pc' = "raised" /\ ik_ret' = << >>]_vars
  /\ [][ik_pc # "raised"]_vars
  /\ [](ik_pc = "raised" => ik_ret = << >>)

\* A call has raised in its third pass, with a best result in hand.
C20_Witness ==
  /\ ik_pc = "raised"
  /\ passes = 3
  /\ best_servo_angles # << >>
  /\ min_error < INF
  /\ ik_ret = << >>

\* A large turn: both XY norms above a micrometre and more than 120 degrees
\* between the XY projections of the start and the target.
LargeTurn ==
  /\ start_pos.r > 1
  /\ end_pos.r > 1
  /\ XYAngle(start_pos, end_pos) > Fifths(120)

\* The smaller of the two XY norms is 0.01 m or more.
RoomForArc == start_pos.r >= Mm(10) /\ end_pos.r >= Mm(10)

LastWaypoint == full_path[Len(full_path)]

\* Where the arc of a move begins and ends: at the bearings of the start and
\* of the target, at the smaller of their XY norms, at the safe height.
EntryOfArc ==
  Pos(start_pos.b,
      IF start_pos.r < end_pos.r THEN start_pos.r ELSE end_pos.r, 250)
ExitOfArc ==
  Pos(end_pos.b,
      IF start_pos.r < end_pos.r THEN start_pos.r ELSE end_pos.r, 250)

\* C22: the waypoint list of a planned move is not empty and its last
\* element is the target, whatever the strategy.  The list of an arc move
\* has 11 waypoints: 3 from the start to the entry of the arc, the third of
\* them the entry; 5 on the arc, at its radius and at the safe height, the
\* fifth of them the exit; 3 from the exit to the target, the third of them
\* the target.
C22_PathEndsAtTarget ==
  pl_pc \in {"enter", "for", "solve", "send", "done"} =>
    /\ Len(full_path) > 0
    /\ SamePoint(Position(LastWaypoint), end_pos)
    /\ strategy = "direct" => Len(full_path) = 1
    /\ strategy = "spherical" => Len(full_path) = 6
    /\ strategy = "arc" =>
         /\ Len(full_path) = 11
         /\ \A k \in 1..3 :
              /\ full_path[k].from = start_pos
              /\ full_path[k].num = k /\ full_path[k].den = 3
         /\ SamePoint(Position(full_path[3]), EntryOfArc)
         /\ \A k \in 4..8 :
              /\ Position(full_path[k]).r = EntryOfArc.r
              /\ Position(full_path[k]).z = 250
         /\ SamePoint(Position(full_path[8]), ExitOfArc)
         /\ \A k \in 9..11 :
              /\ SamePoint(full_path[k].from, ExitOfArc)
              /\ full_path[k].num = k - 8 /\ full_path[k].den = 3
         /\ SamePoint(Position(full_path[11]), end_pos)

\* An arc has been planned from the bearing of 170 degrees across the
\* bearing of 180 degrees to the bearing of -60 degrees.
C22_Witness ==
  /\ pl_pc = "enter"
  /\ strategy = "arc"
  /\ start_pos.b = Fifths(170)
  /\ end_pos.b = Fifths(0 - 60)
  /\ Len(full_path) = 11
  /\ Position(full_path[6]).b = Fifths(170 + 78)

\* The commands of a motion step that were sent with success, as the indices
\* of their waypoints in the planned list.
Delivered ==
  [k \in 1..Len(dispatched) |-> dispatched[k][1]]

\* C23: a motion step that reports success has solved and sent a command
\* for every waypoint of its planned list, in the order of the list: one
\* command, for the target, in a direct move, six in a spherical move, and
\* the last command is that of the target.
C23_SuccessSentEveryWaypoint ==
  result = "True" =>
    /\ \A k \in 1..Len(dispatched) : dispatched[k][2]
    /\ Delivered = [k \in 1..Len(full_path) |-> k - 1]
    /\ ik_calls = [k \in 1..Len(full_path) |-> k - 1]
    /\ strategy = "direct" => Len(dispatched) = 1
    /\ strategy = "spherical" => Len(dispatched) = 6
    /\ Len(dispatched) > 0
    /\ SamePoint(Position(full_path[Delivered[Len(Delivered)] + 1]), end_pos)

\* One of the two positions of a slerp call is within a micrometre of the
\* origin, or the two are less than a degree apart.
DegenerateSlerp ==
  \/ sl_p1.r = 0
  \/ sl_p2.r = 0
  \/ XYAngle(sl_p1, sl_p2) < Fifths(1)

\* C24: _get_slerp_path(p1, p2, n) with n >= 1 and p1 # p2 returns n
\* points, the k-th the fraction k / n of the way from p1 to p2: none of
\* them is p1 and the last one is p2.  When a norm is below 1e-6 or the
\* angle below one degree every point is a linear interpolation (nothing is
\* divided by the sine of the angle), and a slerp point otherwise.
C24_SlerpPath ==
  sl_pc = "done" =>
    /\ Len(sl_path) = sl_steps
    /\ \A k \in 1..Len(sl_path) :
         /\ sl_path[k].from = sl_p1
         /\ sl_path[k].to = sl_p2
         /\ sl_path[k].num = k
         /\ sl_path[k].den = sl_steps
         /\ sl_path[k].num > 0
         /\ sl_path[k].mode = IF DegenerateSlerp THEN "lerp" ELSE "slerp"
    /\ SamePoint(Position(sl_path[Len(sl_path)]), sl_p2)

\* A call with three steps has returned for two positions 0.8 degrees apart,
\* and its points are linear interpolations.
C24_Witness ==
  /\ sl_pc = "done"
  /\ sl_steps = 3
  /\ sl_p1.r = Mm(150)
  /\ sl_p2.r = Mm(150)
  /\ XYAngle(sl_p1, sl_p2) = 4
  /\ Len(sl_path) = 3
  /\ sl_path[1].mode = "lerp"

AddressedBefore ==
  IF last_call.name \in {"remove_pickup_point", "update_pickup_point"}
    THEN last_call.pickup_points ELSE last_call.place_points
AddressedAfter ==
  IF last_call.name \in {"remove_pickup_point", "update_pickup_point"}
    THEN pickup_points ELSE place_points
OtherBefore ==
  IF last_call.name \in {"remove_pickup_point", "update_pickup_point"}
    THEN last_call.place_points ELSE last_call.pickup_points
OtherAfter ==
  IF last_call.name \in {"remove_pickup_point", "update_pickup_point"}
    THEN place_points ELSE pickup_points

\* C26: a remove or update call with an index below 0 or not below the
\* length of its list leaves both lists as they were; with an index in the
\* list a remove takes out the entry at the index and an update replaces
\* it, the other entries and the other list staying as they were.
C26_IndexOutsideIsIgnored ==
  edits > 0 =>
    LET i == last_call.index
        before == AddressedBefore
        after == AddressedAfter
    IN /\ OtherAfter = OtherBefore
       /\ i < 0 \/ i >= Len(before) => after = before
       /\ 0 <= i /\ i < Len(before) =>
            IF last_call.name \in {"remove_pickup_point", "remove_place_point"}
              THEN /\ Len(after) = Len(before) - 1
                   /\ \A k \in 1..Len(after) :
                        after[k] = IF k <= i THEN before[k] ELSE before[k + 1]
              ELSE /\ Len(after) = Len(before)
                   /\ after[i + 1] \in NewPoints
                   /\ \A k \in 1..Len(after) :
                        k # i + 1 => after[k] = before[k]

\* remove_pickup_point has been called with the index -1 on a list of two
\* points, which are both still there.
C26_Witness ==
  /\ edits > 0
  /\ last_call.name = "remove_pickup_point"
  /\ last_call.index = 0 - 1
  /\ Len(last_call.pickup_points) = 2
  /\ pickup_points = last_call.pickup_points

\* C27: a call of _execute_path on a list of at most one waypoint returns
\* True and has called no inverse_kinematics, sent no command and left
\* current_angles as they were; a call on a list of k >= 2 waypoints that
\* returns True with every solve and every send a success has sent exactly
\* k - 1 commands, those of the waypoints after the first in their order.
C27_ShortPathIsTrivial ==
  pl_pc = "done" =>
    /\ Len(full_path) <= 1 =>
         /\ result = "True"
         /\ ik_calls = << >>
         /\ dispatched = << >>
         /\ stored = 0 - 1
    /\ ( /\ Len(full_path) >= 2
         /\ result = "True"
         /\ Len(dispatched) = Len(ik_calls)
         /\ \A k \in 1..Len(dispatched) : dispatched[k][2] ) =>
         /\ Len(dispatched) = Len(full_path) - 1
         /\ \A k \in 1..Len(dispatched) : dispatched[k][1] = k
         /\ stored = Len(full_path) - 1

\* A call on a list of three waypoints has returned True after two solves
\* and two sends.
C27_Witness ==
  /\ pl_pc = "done"
  /\ result = "True"
  /\ Len(full_path) = 3
  /\ Len(ik_calls) = 2
  /\ Len(dispatched) = 2
  /\ dispatched[2] = << 2, TRUE >>

\* C28: a waypoint that inverse_kinematics has no angles for is skipped
\* only when it is not the last one: a call of _execute_path on two or more
\* waypoints that returns True has sent the command of the last waypoint
\* with success, and a call whose last waypoint was left without angles
\* does not return True.
C28_SuccessReachedTarget ==
  (pl_pc = "done" /\ result = "True" /\ Len(full_path) >= 2) =>
    /\ Len(dispatched) > 0
    /\ dispatched[Len(dispatched)] = << Len(full_path) - 1, TRUE >>

\* C29: once stop_task has raised the stop flag with the worker alive, the
\* worker ends, with no resume and also when the task is paused (the pause
\* flag up): no start_task follows, and each send returns.
C29_StopEndsWorker ==
  \A w \in Workers : (task_stop_flag /\ Alive(w)) ~> (pc[w] = "done")

\* The worker has ended after a stop, with the pause flag still up and its
\* cycle given up after the report of one step.
C29_Witness ==
  /\ pc[1] = "done"
  /\ task_stop_flag
  /\ task_pause_flag
  /\ "pause" \in requests[1]
  /\ "stop" \in requests[1]
  /\ ~success[1]
  /\ Len(reported[1]) = 2

\* C30: whenever task_state is Running or Paused a worker is alive (but
\* inside start_task, between its write of Running and the start of the
\* thread): no pause_task that tested the state before the worker wrote its
\* final state writes Running or Paused after it.
C30_ActiveStateHasWorker ==
  (task_state \in {RUNNING, PAUSED} /\ cpc # "start_spawn") =>
    \E w \in Workers : Alive(w)

====
